---- MODULE Spec2Model ----
(***************************************************************************)
(* The wave run-up analysis of notebooks/WaveClim/CycloneYasi.ipynb:       *)
(* the Power et al. (2018) table is read with pandas, iribarrenNb is       *)
(* applied to whole columns, and two figures select the rows of each beach *)
(* type with np.where and plot r2/hs (figure 1) and r2 against hs          *)
(* (figure 2).                                                             *)
(*                                                                         *)
(* The other notebooks are modelled cell by cell, each in a kernel of its  *)
(* own: notebooks/WaveClim/WaveAnalysis.ipynb (altimeter time series,      *)
(* seasonality by tile, anomalies of three climate indices and of the      *)
(* monthly wave height and period, and their Pearson correlations), the    *)
(* cyclone notebook of CycloneYasi.ipynb and the wave-sediment notebook    *)
(* unnamed/part_000.  RADWave, wavesed and scipy are not part of the       *)
(* repository: a call is recorded in the call log of its kernel and        *)
(* modelled by what it stores on its object or returns.                    *)
(*                                                                         *)
(* Numbers.  The notebook computes in IEEE doubles held in numpy arrays.   *)
(* A double is modelled as NaN, +inf, -inf or an exact real of the form    *)
(*      s * (n/d) * pi^p            (root = FALSE)                         *)
(*      s * sqrt((n/d) * pi^p)      (root = TRUE)                          *)
(* with s the sign, n/d a reduced fraction and p an integer.  The form is  *)
(* closed under the operations the notebook applies: product, quotient,   *)
(* square and the power 0.5 of a plain value, so every finite result is    *)
(* the exact real the doubles                                              *)
(* approximate; rounding is not modelled.  Zero carries no sign.           *)
(* The special values follow numpy: x/0 is inf or NaN, never an exception. *)
(***************************************************************************)
EXTENDS Integers, Sequences, FiniteSets, TLC

\* ------------------------------------------------------------ numbers

Abs(i) == IF i < 0 THEN -i ELSE i

Sgn(i) == IF i < 0 THEN -1 ELSE IF i = 0 THEN 0 ELSE 1

RECURSIVE GCD(_, _)
GCD(a, b) == IF b = 0 THEN a ELSE GCD(b, a % b)

NaN == [k |-> "nan", s |-> 0, n |-> 0, d |-> 1, p |-> 0, root |-> FALSE]

Inf(sg) == [k |-> "inf", s |-> sg, n |-> 0, d |-> 1, p |-> 0, root |-> FALSE]

Zero == [k |-> "fin", s |-> 0, n |-> 0, d |-> 1, p |-> 0, root |-> FALSE]

\* the reduced finite value sg * (n/d) * pi^p, under a square root when root
Norm(sg, n, d, p, root) ==
    IF n = 0 \/ sg = 0 THEN Zero
    ELSE LET g == GCD(n, d)
         IN  [k |-> "fin", s |-> sg, n |-> n \div g, d |-> d \div g,
              p |-> p, root |-> root]

\* the reduced finite value sg * (n1 * n2) / (d1 * d2) * pi^p, the common
\* factors taken out before the products are formed
Frac(sg, n1, n2, d1, d2, p, root) ==
    IF n1 = 0 \/ n2 = 0 \/ sg = 0 THEN Zero
    ELSE LET g1 == GCD(n1, d1)
             g2 == GCD(n2, d2)
             h1 == GCD(n1 \div g1, d2 \div g2)
             h2 == GCD(n2 \div g2, d1 \div g1)
         IN  [k |-> "fin", s |-> sg,
              n |-> ((n1 \div g1) \div h1) * ((n2 \div g2) \div h2),
              d |-> ((d1 \div g1) \div h2) * ((d2 \div g2) \div h1),
              p |-> p, root |-> root]

\* the float literal a/b (b > 0)
Rat(a, b) == Norm(Sgn(a), Abs(a), b, 0, FALSE)

IsSquare(n) == \E r \in 0..n : r * r = n

ISqrt(n) == CHOOSE r \in 0..n : r * r = n

\* a finite value given by its sign and its square (n/d) * pi^p: kept under the
\* root unless the square is the square of a value of the plain form
FromSquare(sg, n1, n2, d1, d2, p) ==
    LET v == Frac(sg, n1, n2, d1, d2, p, TRUE)
    IN  IF v.s # 0 /\ v.p % 2 = 0 /\ IsSquare(v.n) /\ IsSquare(v.d)
        THEN Norm(v.s, ISqrt(v.n), ISqrt(v.d), v.p \div 2, FALSE)
        ELSE v

\* the square of the magnitude of a finite value, as <<n, d, p>>
Square(x) == IF x.root THEN <<x.n, x.d, x.p>>
             ELSE <<x.n * x.n, x.d * x.d, 2 * x.p>>

\* numpy a * b
FMul(a, b) ==
    IF a.k = "nan" \/ b.k = "nan" THEN NaN
    ELSE IF a.k = "inf" \/ b.k = "inf"
         THEN IF a.s * b.s = 0 THEN NaN ELSE Inf(a.s * b.s)
    ELSE IF a.root /\ b.root /\ Square(a) = Square(b)
         THEN Norm(a.s * b.s, a.n, a.d, a.p, FALSE)
    ELSE IF a.root \/ b.root
         THEN LET x == Square(a)
                  y == Square(b)
              IN  FromSquare(a.s * b.s, x[1], y[1], x[2], y[2], x[3] + y[3])
    ELSE Frac(a.s * b.s, a.n, b.n, a.d, b.d, a.p + b.p, FALSE)

\* numpy a / b: division by zero gives inf (or NaN for 0/0) and raises nothing
FDiv(a, b) ==
    IF a.k = "nan" \/ b.k = "nan" THEN NaN
    ELSE IF a.k = "inf"
         THEN IF b.k = "inf" THEN NaN
              ELSE Inf(a.s * (IF b.s < 0 THEN -1 ELSE 1))
    ELSE IF b.k = "inf" THEN Zero
    ELSE IF b.s = 0 THEN (IF a.s = 0 THEN NaN ELSE Inf(a.s))
    ELSE IF a.root \/ b.root
         THEN LET x == Square(a)
                  y == Square(b)
              IN  FromSquare(a.s * b.s, x[1], y[2], x[2], y[1], x[3] - y[3])
    ELSE Frac(a.s * b.s, a.n, b.d, a.d, b.n, a.p - b.p, FALSE)

\* numpy a + b, for values of the plain form without a power of pi
FAdd(a, b) ==
    IF a.k = "nan" \/ b.k = "nan" THEN NaN
    ELSE IF a.k = "inf" \/ b.k = "inf"
         THEN IF a.k = "inf" /\ b.k = "inf" /\ a.s # b.s THEN NaN
              ELSE IF a.k = "inf" THEN a ELSE b
    ELSE IF a.root \/ b.root \/ a.p # 0 \/ b.p # 0
         THEN CHOOSE v \in {} : TRUE               \* a sum outside the form
    ELSE LET g == GCD(a.d, b.d)
             m == a.s * a.n * (b.d \div g) + b.s * b.n * (a.d \div g)
         IN  Norm(Sgn(m), Abs(m), (a.d \div g) * b.d, 0, FALSE)

\* numpy -a
FNeg(a) == IF a.k = "nan" THEN NaN ELSE [a EXCEPT !.s = -a.s]

\* numpy a - b
FSub(a, b) == FAdd(a, FNeg(b))

\* numpy a ** 2 (computed as a * a)
FSquare(a) == FMul(a, a)

\* the two ways a build evaluates array ** 0.5: numpy's scalar-power fast path
\* calls sqrt, the generic power loop (and numexpr) calls C pow; they differ
\* on -inf only (sqrt(-inf) is NaN, pow(-inf, 0.5) is +inf)
PowImpls == {"sqrt", "pow"}

\* numpy a ** 0.5
FPowHalf(a, impl) ==
    IF a.k = "nan" THEN NaN
    ELSE IF a.k = "inf"
         THEN IF a.s > 0 THEN Inf(1)
              ELSE IF impl = "pow" THEN Inf(1) ELSE NaN
    ELSE IF a.s < 0 THEN NaN
    ELSE IF a.s = 0 THEN Zero
    ELSE IF a.root THEN CHOOSE v \in {} : TRUE   \* a fourth root: not in the form
    ELSE FromSquare(1, a.n, 1, a.d, 1, a.p)

\* rational bounds of pi: PiLo < pi < PiHi
PiLo == <<333, 106>>

PiHi == <<355, 113>>

\* the order of l and r * pi^q for integers l, r > 0: -1, 0 or 1
CmpPi(l, r, q) ==
    IF q = 0 THEN Sgn(l - r)
    ELSE IF q = 1
         THEN IF l <= 3 * r THEN -1
              ELSE IF l >= 4 * r THEN 1
              ELSE IF l * PiLo[2] <= r * PiLo[1] THEN -1
              ELSE IF l * PiHi[2] >= r * PiHi[1] THEN 1
              ELSE CHOOSE c \in {} : TRUE        \* closer to pi than its bounds
    ELSE IF q = -1
         THEN IF 3 * l >= r THEN 1
              ELSE IF 4 * l <= r THEN -1
              ELSE IF l * PiLo[1] >= r * PiLo[2] THEN 1
              ELSE IF l * PiHi[1] <= r * PiHi[2] THEN -1
              ELSE CHOOSE c \in {} : TRUE
    ELSE CHOOSE c \in {} : TRUE

\* the order of the magnitudes of two finite non-zero values
CmpMag(a, b) ==
    LET x == IF a.root \/ b.root THEN Square(a) ELSE <<a.n, a.d, a.p>>
        y == IF a.root \/ b.root THEN Square(b) ELSE <<b.n, b.d, b.p>>
        gn == GCD(x[1], y[1])
        gd == GCD(x[2], y[2])
    IN  CmpPi((x[1] \div gn) * (y[2] \div gd),
              (y[1] \div gn) * (x[2] \div gd), y[3] - x[3])

\* the order of two values that are not NaN: -1, 0 or 1
Cmp(a, b) ==
    IF a.k = "inf" \/ b.k = "inf"
    THEN LET x == IF a.k = "inf" THEN 2 * a.s ELSE a.s
             y == IF b.k = "inf" THEN 2 * b.s ELSE b.s
         IN  Sgn(x - y)
    ELSE IF a.s # b.s THEN Sgn(a.s - b.s)
    ELSE IF a.s = 0 THEN 0
    ELSE a.s * CmpMag(a, b)

\* numpy a < b and a >= b: every comparison with NaN is False
FLt(a, b) == a.k # "nan" /\ b.k # "nan" /\ Cmp(a, b) < 0

FGe(a, b) == a.k # "nan" /\ b.k # "nan" /\ Cmp(a, b) >= 0

IsFinite(a) == a.k = "fin"

\* ------------------------------------------------------------ the program

\* 9.81, 2 and np.pi as they stand in iribarrenNb
G == Rat(981, 100)

Two == Rat(2, 1)

Pi == Norm(1, 1, 1, 1, FALSE)

\* Lp with the divisor of the notebook's text, g T^2 / pi
Lp_DocFormula(Tp) == FDiv(FMul(G, FSquare(Tp)), Pi)

\* Lp with the period not squared
Lp_NoSquare(Tp) == FDiv(FMul(G, Tp), FMul(Two, Pi))

\* the deep-water wavelength, the first statement of iribarrenNb
Lp(Tp) == FDiv(FMul(G, FSquare(Tp)), FMul(Two, Pi))

\* iribarrenNb dividing by the steepness instead of its square root
iribarrenNb_NoRoot(Tp, Hs, beta, impl) == FDiv(beta, FDiv(Hs, Lp(Tp)))

\* iribarrenNb masking the inputs outside its domain with NaN
iribarrenNb_Guarded(Tp, Hs, beta, impl) ==
    IF Hs.k = "fin" /\ Hs.s > 0 /\ Tp.k = "fin" /\ Tp.s > 0
    THEN FDiv(beta, FPowHalf(FDiv(Hs, Lp(Tp)), impl))
    ELSE NaN

\* def iribarrenNb(Tp,Hs,beta); impl is the build's evaluation of ** 0.5
iribarrenNb(Tp, Hs, beta, impl) ==
    LET zeta == FDiv(beta, FPowHalf(FDiv(Hs, Lp(Tp)), impl))
    IN  zeta

\* the column names handed to read_csv
names == <<"dataset", "beach", "case", "lab_field", "hs", "tp", "beta",
           "d50", "roughness", "r2">>

\* the thresholds between the beach types in the first figure
Dissipative == Rat(1, 2)

Reflective == Rat(3, 2)

\* ------------------------------------------------------------ inputs

\* the longest table (data lines of the file) explored
MaxRows == 2

\* a wave height a quarter of the wavelength of an 8 s wave: with it the
\* steepness hs/Lp is exactly 1/4 and the Iribarren number is 2 * beta
HsQuarter == FDiv(Lp(Rat(8, 1)), Rat(4, 1))

M(hs, tp, beta, r2) == [hs |-> hs, tp |-> tp, beta |-> beta, r2 |-> r2]

\* the measurements (hs, tp, beta, r2) a data line may hold: valid records of
\* the three beach types, then records with a zero, negative or missing wave
\* height, a zero or negative period, a negative slope or zero run-up, and
\* records whose Iribarren number is on or just under a threshold
Meas ==
    { M(Rat(2, 1), Rat(8, 1), Rat(1, 20), Rat(6, 5)),
      M(Rat(2, 1), Rat(8, 1), Rat(1, 5), Rat(6, 5)),
      M(Rat(2, 1), Rat(8, 1), Rat(1, 4), Rat(6, 5)),
      M(Rat(1, 2), Rat(5, 1), Rat(1, 10), Rat(3, 10)),
      M(Rat(2, 1), Rat(8, 1), Zero, Rat(6, 5)),
      M(Zero, Rat(8, 1), Rat(1, 20), Rat(6, 5)),
      M(Zero, Rat(8, 1), Rat(1, 20), Zero),
      M(Zero, Rat(8, 1), Zero, Zero),
      M(Rat(-1, 1), Rat(8, 1), Rat(1, 20), Rat(6, 5)),
      M(Rat(2, 1), Zero, Rat(1, 20), Rat(6, 5)),
      M(Rat(-1, 1), Zero, Rat(1, 20), Rat(6, 5)),
      M(Rat(2, 1), Rat(-8, 1), Rat(1, 20), Rat(6, 5)),
      M(Rat(2, 1), Rat(8, 1), Rat(-1, 20), Rat(6, 5)),
      M(NaN, Rat(8, 1), Rat(1, 20), Rat(6, 5)) }
    \cup { M(HsQuarter, Rat(8, 1), beta, Rat(6, 5)) :
        beta \in {Rat(4999, 20000), Rat(1, 4), Rat(14999, 20000), Rat(3, 4)} }

\* a cell that is not a number, such as a word in a numeric column
Text == [k |-> "str", s |-> 0, n |-> 0, d |-> 1, p |-> 0, root |-> FALSE]

\* measurements with a cell that is not a number in one of the columns
\* iribarrenNb reads
MeasText ==
    { M(Text, Rat(8, 1), Rat(1, 20), Rat(6, 5)),
      M(Rat(2, 1), Text, Rat(1, 20), Rat(6, 5)),
      M(Rat(2, 1), Rat(8, 1), Text, Rat(6, 5)) }

\* the header line of the file
Header == names

\* the i-th data line holding measurement m
Line(i, m) == <<"A", "B1", i, "field", m.hs, m.tp, m.beta,
                Rat(3, 10000), Rat(1, 1), m.r2>>

\* the file made of the header line and one data line per measurement of ms
FileOf(ms) == <<Header>> \o [i \in 1..Len(ms) |-> Line(i, ms[i])]

\* the line without its c-th field
DropField(line, c) ==
    [j \in 1..(Len(line) - 1) |-> IF j < c THEN line[j] ELSE line[j + 1]]

\* the file written without its c-th column, header included
DropColumn(lines, c) == [i \in 1..Len(lines) |-> DropField(lines[i], c)]

\* ------------------------------------------------------------ state

VARIABLES
    file,       \* the lines of ../../dataset/power18.csv
    pc,         \* the next cell of the notebook to run
    columns,    \* df.columns
    df,         \* the rows of df, each a record over columns
    ids1,       \* the row positions np.where gave for each beach type
    ids2,
    ids3,
    fig1,       \* the three point series of the first figure
    fig2        \* the three point series of the second figure

\* the kernel of notebooks/WaveClim/WaveAnalysis.ipynb
VARIABLES
    env,        \* what the notebook reads from disk and from the web
    waPc,       \* the next cell of the notebook to run
    wa,         \* the RADWave waveAnalysis object
    waLog,      \* the calls made on wa and the reads of wa.timeseries
    tiles,      \* the Python lists of the seasonality cells
    lonlat,
    seasons,
    curves,     \* the lines drawn on ax, in drawing order
    legend,     \* the labels handed to ax.legend
    time,       \* the list [first year, last year]
    soi_df,     \* the filtered tables with their anomaly column
    aoi_df,
    sam_df,
    wh_df,
    T_df,
    pearson     \* the calls of scipy.stats.pearsonr

\* the kernel of the cyclone notebook of notebooks/WaveClim/CycloneYasi.ipynb
VARIABLES
    cyPc,       \* the next cell of the notebook to run
    cyc,        \* the three waveAnalysis objects
    wa_east,
    wa_west,
    cyLog       \* the calls made on them

\* the kernel of the wave-sediment notebook (unnamed/part_000)
VARIABLES
    wsPc,       \* the next cell of the notebook to run
    params,     \* the parameters the first cells define
    wavesed,    \* the ocean.wave object
    wdir,       \* the value returned by wavesed.wavesource
    wsLog       \* the calls made on wavesed

yasiVars == <<file, pc, columns, df, ids1, ids2, ids3, fig1, fig2>>

waVars == <<env, waPc, wa, waLog, tiles, lonlat, seasons, curves, legend,
            time, soi_df, aoi_df, sam_df, wh_df, T_df, pearson>>

cyVars == <<cyPc, cyc, wa_east, wa_west, cyLog>>

wsVars == <<wsPc, params, wavesed, wdir, wsLog>>

vars == <<yasiVars, waVars, cyVars, wsVars>>

\* the kernel of WaveAnalysis.ipynb has not been started
WaOff ==
    /\ env = <<>>
    /\ waPc = "off"
    /\ wa = <<>>
    /\ waLog = <<>>
    /\ tiles = <<>>
    /\ lonlat = <<>>
    /\ seasons = <<>>
    /\ curves = <<>>
    /\ legend = <<>>
    /\ time = <<>>
    /\ soi_df = <<>>
    /\ aoi_df = <<>>
    /\ sam_df = <<>>
    /\ wh_df = <<>>
    /\ T_df = <<>>
    /\ pearson = <<>>

\* the kernel of the cyclone notebook has not been started
CyOff ==
    /\ cyPc = "off"
    /\ cyc = <<>>
    /\ wa_east = <<>>
    /\ wa_west = <<>>
    /\ cyLog = <<>>

\* the kernel of the wave-sediment notebook has not been started
WsOff ==
    /\ wsPc = "off"
    /\ params = <<>>
    /\ wavesed = <<>>
    /\ wdir = <<>>
    /\ wsLog = <<>>

\* the kernel of the run-up notebook has not been started
YasiOff ==
    /\ file = <<>>
    /\ pc = "off"
    /\ columns = <<>>
    /\ df = <<>>
    /\ ids1 = <<>>
    /\ ids2 = <<>>
    /\ ids3 = <<>>
    /\ fig1 = <<>>
    /\ fig2 = <<>>

Init ==
    /\ \E n \in 0..MaxRows : \E ms \in [1..n -> Meas] : file = FileOf(ms)
    /\ pc = "read_csv"
    /\ columns = <<>>
    /\ df = <<>>
    /\ ids1 = <<>>
    /\ ids2 = <<>>
    /\ ids3 = <<>>
    /\ fig1 = <<>>
    /\ fig2 = <<>>
    /\ WaOff /\ CyOff /\ WsOff

\* the measurements of zero slope
MeasFlat == {m \in Meas : m.beta = Zero}

\* the files that lack one column, taken out of a file of one to MaxRows data
\* lines. Without a column before beta the slope is read as the period and
\* the grain size as the slope: these files hold records of zero slope, whose
\* shifted arithmetic stays within the integers' width
InitMissing ==
    /\ \E c \in 1..Len(names) : \E n \in 1..MaxRows :
          \E ms \in [1..n -> IF c < 7 THEN MeasFlat ELSE Meas] :
              file = DropColumn(FileOf(ms), c)
    /\ pc = "read_csv"
    /\ columns = <<>>
    /\ df = <<>>
    /\ ids1 = <<>>
    /\ ids2 = <<>>
    /\ ids3 = <<>>
    /\ fig1 = <<>>
    /\ fig2 = <<>>
    /\ WaOff /\ CyOff /\ WsOff

\* the files of up to MaxRows data lines that may hold cells that are not
\* numbers under hs, tp or beta
InitMalformed ==
    /\ \E n \in 0..MaxRows : \E ms \in [1..n -> Meas \cup MeasText] :
          file = FileOf(ms)
    /\ pc = "read_csv"
    /\ columns = <<>>
    /\ df = <<>>
    /\ ids1 = <<>>
    /\ ids2 = <<>>
    /\ ids3 = <<>>
    /\ fig1 = <<>>
    /\ fig2 = <<>>
    /\ WaOff /\ CyOff /\ WsOff

\* ------------------------------------------------------------ pandas, numpy

\* read_csv followed by the removal of the rows whose hs is not positive
read_csv_DropInvalid(lines, cols, skip) ==
    SelectSeq([i \in 1..(Len(lines) - skip) |->
                  [c \in {cols[j] : j \in 1..Len(cols)} |->
                      lines[i + skip][CHOOSE j \in 1..Len(cols) : cols[j] = c]]],
              LAMBDA r : r.hs.k = "fin" /\ r.hs.s > 0)

\* read_csv that skips no line: the header line becomes the first row
read_csv_NoSkip(lines, cols, skip) ==
    [i \in 1..Len(lines) |->
        [c \in {cols[j] : j \in 1..Len(cols)} |->
            lines[i][CHOOSE j \in 1..Len(cols) : cols[j] = c]]]

\* read_csv that refuses a file with a line of fewer fields than names, and
\* gives no table
read_csv_Strict(lines, cols, skip) ==
    IF \E i \in 1..Len(lines) : Len(lines[i]) < Len(cols) THEN <<>>
    ELSE [i \in 1..(Len(lines) - skip) |->
             [c \in {cols[j] : j \in 1..Len(cols)} |->
                 lines[i + skip][CHOOSE j \in 1..Len(cols) : cols[j] = c]]]

\* pd.read_csv(..., names=cols, skiprows=skip): the lines after the first skip
\* ones, each a record naming its fields by position; a name past the end of
\* a short line gets NaN
read_csv(lines, cols, skip) ==
    [i \in 1..(Len(lines) - skip) |->
        [c \in {cols[j] : j \in 1..Len(cols)} |->
            LET j == CHOOSE j \in 1..Len(cols) : cols[j] = c
            IN  IF j <= Len(lines[i + skip]) THEN lines[i + skip][j] ELSE NaN]]

\* df[col] = values with the values taken in reverse order
SetColumn_Reversed(rows, col, values) ==
    [i \in 1..Len(rows) |-> rows[i] @@ (col :> values[Len(rows) + 1 - i])]

\* df[col] = values together with two further columns of the same values
SetColumn_Three(rows, col, values) ==
    [i \in 1..Len(rows) |->
        rows[i] @@ (col :> values[i]) @@ ("beach_type" :> values[i])
                @@ ("normalized_runup" :> values[i])]

\* df[col] = values: the column is appended (values align by row label)
SetColumn(rows, col, values) ==
    [i \in 1..Len(rows) |-> rows[i] @@ (col :> values[i])]

\* the positions where mask holds, descending
RECURSIVE Where_Desc(_, _)
Where_Desc(mask, i) ==
    IF i > Len(mask) THEN <<>>
    ELSE IF mask[i] THEN Where_Desc(mask, i + 1) \o <<i>>
    ELSE Where_Desc(mask, i + 1)

\* np.where(mask)[0]: the positions where mask holds, ascending
RECURSIVE Where(_, _)
Where(mask, i) ==
    IF i > Len(mask) THEN <<>>
    ELSE IF mask[i] THEN <<i>> \o Where(mask, i + 1)
    ELSE Where(mask, i + 1)

\* df.col[ids] read by position in the selection instead of by row label
Take_Positional(rows, col, ids) ==
    [j \in 1..Len(ids) |-> [label |-> ids[j], value |-> rows[j][col]]]

\* df.col[ids]: the series of the rows labelled ids, each value with its label
Take(rows, col, ids) ==
    [j \in 1..Len(ids) |-> [label |-> ids[j], value |-> rows[ids[j]][col]]]

\* the value a series holds at a label
At(series, label) ==
    (CHOOSE e \in {series[j] : j \in 1..Len(series)} : e.label = label).value

\* series a / series b with a zero divisor masked by NaN
SeriesDiv_Safe(a, b) ==
    [j \in 1..Len(a) |->
        [label |-> a[j].label,
         value |-> IF At(b, a[j].label).k = "fin" /\ At(b, a[j].label).s = 0
                   THEN NaN
                   ELSE FDiv(a[j].value, At(b, a[j].label))]]

\* series a / series b with every value divided by the first value of b
SeriesDiv_First(a, b) ==
    [j \in 1..Len(a) |->
        [label |-> a[j].label, value |-> FDiv(a[j].value, b[1].value)]]

\* series a / series b: pandas divides the values that carry the same label
SeriesDiv(a, b) ==
    [j \in 1..Len(a) |->
        [label |-> a[j].label, value |-> FDiv(a[j].value, At(b, a[j].label))]]

\* plt.plot(xs, ys, ...): the points drawn, paired by position
Plot(xs, ys) ==
    [j \in 1..Len(xs) |-> [row |-> xs[j].label, x |-> xs[j].value, y |-> ys[j].value]]

\* ------------------------------------------------------------ cells

\* df = pd.read_csv('../../dataset/power18.csv', names=names, skiprows=1)
ReadCsv ==
    /\ pc = "read_csv"
    /\ df' = read_csv(file, names, 1)
    /\ columns' = names
    /\ pc' = "iribarren"
    /\ UNCHANGED <<file, ids1, ids2, ids3, fig1, fig2>>
    /\ UNCHANGED <<waVars, cyVars, wsVars>>

\* the columns iribarrenNb reads hold numbers only: a cell that is not a
\* number makes its column a column of strings, on which **, / raise TypeError
Numeric(rows) ==
    \A i \in 1..Len(rows) :
        rows[i].tp.k # "str" /\ rows[i].hs.k # "str" /\ rows[i].beta.k # "str"

\* the call of iribarrenNb that gives NaN to the rows with a cell that is not
\* a number and goes on
CallIribarren_SkipText ==
    /\ pc = "iribarren"
    /\ \E impl \in PowImpls :
         LET iribarren ==
                 [i \in 1..Len(df) |->
                     IF Numeric(<<df[i]>>)
                     THEN iribarrenNb(df[i].tp, df[i].hs, df[i].beta, impl)
                     ELSE NaN]
         IN  df' = SetColumn(df, "iribarren", iribarren)
    /\ columns' = Append(columns, "iribarren")
    /\ pc' = "plot1"
    /\ UNCHANGED <<file, ids1, ids2, ids3, fig1, fig2>>
    /\ UNCHANGED <<waVars, cyVars, wsVars>>

\* iribarren = iribarrenNb(Tp=df.tp, Hs=df.hs, beta=df.beta), element by
\* element over the columns, then df["iribarren"] = iribarren
CallIribarren ==
    /\ pc = "iribarren"
    /\ IF Numeric(df)
       THEN /\ \E impl \in PowImpls :
                 LET iribarren ==
                         [i \in 1..Len(df) |->
                             iribarrenNb(df[i].tp, df[i].hs, df[i].beta, impl)]
                 IN  df' = SetColumn(df, "iribarren", iribarren)
            /\ columns' = Append(columns, "iribarren")
            /\ pc' = "plot1"
       ELSE /\ pc' = "TypeError"
            /\ UNCHANGED <<df, columns>>
    /\ UNCHANGED <<file, ids1, ids2, ids3, fig1, fig2>>
    /\ UNCHANGED <<waVars, cyVars, wsVars>>

\* the first mask with the threshold included: df.iribarren <= 0.5
Mask1_Closed(rows) ==
    [i \in 1..Len(rows) |-> FGe(Dissipative, rows[i].iribarren)]

\* the masks of the three np.where calls of the first figure
Mask1(rows) == [i \in 1..Len(rows) |-> FLt(rows[i].iribarren, Dissipative)]

Mask2(rows) ==
    [i \in 1..Len(rows) |-> FGe(rows[i].iribarren, Dissipative)
                            /\ FLt(rows[i].iribarren, Reflective)]

\* the third mask written as the negation of df.iribarren < 1.5
Mask3_NotLess(rows) ==
    [i \in 1..Len(rows) |-> ~FLt(rows[i].iribarren, Reflective)]

Mask3(rows) == [i \in 1..Len(rows) |-> FGe(rows[i].iribarren, Reflective)]

\* plt.plot(df.iribarren[ids], df.r2[ids]/df.hs[ids], ...)
RatioSeries(rows, ids) ==
    Plot(Take(rows, "iribarren", ids),
         SeriesDiv(Take(rows, "r2", ids), Take(rows, "hs", ids)))

\* the first figure drawn after reordering df in place, last row first
Plot1_Sorting ==
    /\ pc = "plot1"
    /\ df' = [i \in 1..Len(df) |-> df[Len(df) + 1 - i]]
    /\ ids1' = Where(Mask1(df'), 1)
    /\ ids2' = Where(Mask2(df'), 1)
    /\ ids3' = Where(Mask3(df'), 1)
    /\ fig1' = <<RatioSeries(df', ids1'), RatioSeries(df', ids2'),
                 RatioSeries(df', ids3')>>
    /\ pc' = "plot2"
    /\ UNCHANGED <<file, columns, fig2>>
    /\ UNCHANGED <<waVars, cyVars, wsVars>>

\* the first figure: R2%/Hs against the Iribarren number, by beach type
Plot1 ==
    /\ pc = "plot1"
    /\ ids1' = Where(Mask1(df), 1)
    /\ ids2' = Where(Mask2(df), 1)
    /\ ids3' = Where(Mask3(df), 1)
    /\ fig1' = <<RatioSeries(df, ids1'), RatioSeries(df, ids2'),
                 RatioSeries(df, ids3')>>
    /\ pc' = "plot2"
    /\ UNCHANGED <<file, columns, df, fig2>>
    /\ UNCHANGED <<waVars, cyVars, wsVars>>

\* plt.plot(df.hs[ids], df.r2[ids], ...)
HsR2Series(rows, ids) == Plot(Take(rows, "hs", ids), Take(rows, "r2", ids))

\* the second figure: R2% against Hs, with the selections of the first
Plot2 ==
    /\ pc = "plot2"
    /\ fig2' = <<HsR2Series(df, ids1), HsR2Series(df, ids2),
                 HsR2Series(df, ids3)>>
    /\ pc' = "done"
    /\ UNCHANGED <<file, columns, df, ids1, ids2, ids3, fig1>>
    /\ UNCHANGED <<waVars, cyVars, wsVars>>

Next == ReadCsv \/ CallIribarren \/ Plot1 \/ Plot2

Spec == Init /\ [][Next]_vars

\* the analysis of a file that may hold cells that are not numbers
SpecMalformed == InitMalformed /\ [][Next]_vars

\* the analysis of a file that lacks one column
SpecMissing == InitMissing /\ [][Next]_vars

\* ------------------------------------------------------------ climate data

\* the months a data set may cover: one before the time frame of the notebook,
\* three inside it and one after it
Calendar ==
    <<[year |-> 1997, month |-> 12], [year |-> 1998, month |-> 1],
      [year |-> 1998, month |-> 2],  [year |-> 2023, month |-> 12],
      [year |-> 2024, month |-> 1]>>

\* the elements of a set of integers in ascending order
RECURSIVE Ordered(_)
Ordered(S) ==
    IF S = {} THEN <<>>
    ELSE LET m == CHOOSE x \in S : \A y \in S : y <= x
         IN  Append(Ordered(S \ {m}), m)

\* the lines of seq at the positions S, in the order of seq
Pick(seq, S) == [i \in 1..Cardinality(S) |-> seq[Ordered(S)[i]]]

\* soi_monthly.txt: one line "yyyymm,value" per month, no header.  The lines
\* 199800 and 199813 carry a month that does not exist.
SoiLines ==
    <<<<199712, Rat(-7, 2)>>, <<199800, Rat(5, 1)>>, <<199801, Rat(1, 1)>>,
      <<199802, Rat(4, 1)>>,  <<199813, Rat(-2, 1)>>, <<202312, Rat(9, 2)>>,
      <<202401, Rat(-6, 1)>>>>

\* the positions of the lines of SoiLines with a month that does not exist
SoiBad == {i \in DOMAIN SoiLines : SoiLines[i][1] % 100 \notin 1..12}

\* the files soi_monthly.txt may be: any lines of SoiLines, at most one of
\* them with a month that does not exist
SoiFiles ==
    {Pick(SoiLines, S) : S \in {T \in SUBSET DOMAIN SoiLines :
                                    Cardinality(T \cap SoiBad) <= 1}}

\* monthly.aao.index.b79.current.ascii: one line "year month value" per month
AoiLines ==
    [i \in DOMAIN Calendar |->
        <<Calendar[i].year, Calendar[i].month, Rat(2 * i * i - 9, 4)>>]

\* the downloads of the AAO index: every month, or a late start
AoiFiles == {Pick(AoiLines, S) : S \in {DOMAIN Calendar, {3, 4, 5}}}

\* newsam.1957.2007.txt: a header of month names, then one line per year with
\* its twelve monthly values; a month without a value is NaN
SamLine(year, S) ==
    <<year>> \o
    [m \in 1..12 |->
        IF \E i \in S : Calendar[i] = [year |-> year, month |-> m]
        THEN Rat((year % 10) - 2 * m, 3) ELSE NaN]

\* the years of the lines of the SAM table
SamYears == Ordered({Calendar[i].year : i \in DOMAIN Calendar})

\* the downloads of the SAM table: the months S filled in
SamFile(S) == [j \in DOMAIN SamYears |-> SamLine(SamYears[j], S)]

SamFiles == {SamFile(S) : S \in {DOMAIN Calendar, {1, 2, 4, 5}}}

\* an altimeter record of the bounding box as RADWave holds it
Obs(i, wh, period) ==
    [year |-> Calendar[i].year, month |-> Calendar[i].month,
     wh |-> wh, period |-> period]

\* the records the altimeter query may return: every month once, a month
\* without a pass, a late start, two passes in one month given out of
\* order, and a single month
AltimeterData ==
    { <<Obs(1, Rat(3, 2), Rat(6, 1)), Obs(2, Rat(2, 1), Rat(7, 1)),
        Obs(3, Rat(5, 2), Rat(5, 1)), Obs(4, Rat(1, 1), Rat(8, 1)),
        Obs(5, Rat(3, 1), Rat(9, 1))>>,
      <<Obs(1, Rat(3, 2), Rat(6, 1)), Obs(2, Rat(2, 1), Rat(7, 1)),
        Obs(4, Rat(1, 1), Rat(8, 1)), Obs(5, Rat(3, 1), Rat(9, 1))>>,
      <<Obs(3, Rat(5, 2), Rat(5, 1)), Obs(4, Rat(1, 1), Rat(8, 1)),
        Obs(5, Rat(3, 1), Rat(9, 1))>>,
      <<Obs(4, Rat(1, 1), Rat(8, 1)), Obs(2, Rat(2, 1), Rat(7, 1)),
        Obs(3, Rat(5, 2), Rat(5, 1)), Obs(2, Rat(4, 1), Rat(10, 1))>>,
      <<Obs(3, Rat(5, 2), Rat(5, 1))>> }

\* what the notebook finds on disk and on the web
Environments ==
    [soi : SoiFiles, aoi : AoiFiles, sam : SamFiles, alti : AltimeterData]

\* ------------------------------------------------------------ pandas tables

\* the index of a table just read or rebuilt: its rows labelled 0, 1, 2, ...
RangeIndex(rows) == [i \in 1..Len(rows) |-> rows[i] @@ ("label" :> (i - 1))]

\* df[col]: the values of a column, each with the label of its row
Column(rows, col) ==
    [i \in 1..Len(rows) |-> [label |-> rows[i].label, value |-> rows[i][col]]]

\* df[df.year < y].index
YearBelow(rows, y) ==
    {rows[i].label : i \in {j \in 1..Len(rows) : rows[j].year < y}}

\* df[df.year > y].index
YearAbove(rows, y) ==
    {rows[i].label : i \in {j \in 1..Len(rows) : rows[j].year > y}}

\* df.drop(labels): the rows whose label is not among labels, in their order
Drop(rows, labels) == SelectSeq(rows, LAMBDA r : r.label \notin labels)

\* the two drops with the bounds themselves dropped as well
TimeFrame_Open(rows, t) ==
    SelectSeq(rows, LAMBDA r : t[1] < r.year /\ r.year < t[2])

\* data.drop(data[data.year < time[0]].index) followed by
\* df.drop(df[df.year > time[1]].index)
TimeFrame(rows, t) ==
    LET late == Drop(rows, YearBelow(rows, t[1]))
    IN  Drop(late, YearAbove(late, t[2]))

\* the sum of the values of a column
RECURSIVE Sum(_, _)
Sum(rows, col) ==
    IF rows = <<>> THEN Zero
    ELSE FAdd(rows[1][col], Sum(Tail(rows), col))

\* the number n as a float
Float(n) == Rat(n, 1)

\* the sum of the column in place of its mean
Mean_Sum(rows, col) == Sum(rows, col)

\* df[col].mean(): NaN is skipped, and the mean of no value is NaN
Mean(rows, col) ==
    LET kept == SelectSeq(rows, LAMBDA r : r[col].k # "nan")
    IN  FDiv(Sum(kept, col), Float(Len(kept)))

\* df['anomaly'] = df[col] - df[col].mean()
Anomaly(rows, col) ==
    [i \in 1..Len(rows) |->
        rows[i] @@ ("anomaly" :> FSub(rows[i][col], Mean(rows, col)))]

\* soi_data['year'] = soi_data['Date'] // 100 and
\* soi_data['month'] = soi_data['Date'] % 100
DecodeDate(rows) ==
    [i \in 1..Len(rows) |->
        rows[i] @@ ("year" :> (rows[i].Date \div 100))
                @@ ("month" :> (rows[i].Date % 100))]

\* the years a pandas timestamp can hold in full
TimestampYears == 1678..2261

\* pd.to_datetime accepting any number as the month
IsDate_NoMonth(r) == r.year \in TimestampYears /\ r.day = 1

\* pd.to_datetime accepts the year, month and day of a row
IsDate(r) == r.year \in TimestampYears /\ r.month \in 1..12 /\ r.day = 1

\* df['time'] = pd.to_datetime(df[['year','month','day']]), every row a date
to_datetime(rows) ==
    [i \in 1..Len(rows) |->
        rows[i] @@ ("time" :> <<rows[i].year, rows[i].month, rows[i].day>>)]

\* read_csv(..., delimiter=r"\s+", header=None) and the rename of the
\* columns 0, 1, 2
ReadAoi(lines) ==
    RangeIndex([i \in 1..Len(lines) |->
        [year |-> lines[i][1], month |-> lines[i][2], Value |-> lines[i][3]]])

\* the cells of one line of the wide table that hold a value, as rows
StackLine(line) ==
    LET months == SelectSeq([m \in 1..12 |-> m],
                            LAMBDA m : line[m + 1].k # "nan")
    IN  [j \in 1..Len(months) |->
            [year |-> line[1], month |-> months[j],
             Value |-> line[months[j] + 1]]]

\* sam_data.stack(): line after line, the months of a line in column order,
\* the cells without a value left out
RECURSIVE Stack(_)
Stack(lines) ==
    IF lines = <<>> THEN <<>>
    ELSE StackLine(lines[1]) \o Stack(Tail(lines))

\* the month of a row, as year * 100 + month
MonthOf(r) == r.year * 100 + r.month

\* the months a table holds
MonthsOf(table) == {MonthOf(table[i]) : i \in 1..Len(table)}

\* the (year, month) keys of a table in ascending order, as year * 100 + month
Keys(rows) == Ordered({rows[i].year * 100 + rows[i].month : i \in 1..Len(rows)})

\* timeseries.groupby(['year','month'])[[col]].apply(np.mean).reset_index():
\* one row per (year, month) in ascending order with the mean of the group
GroupMean(rows, col) ==
    RangeIndex([j \in 1..Len(Keys(rows)) |->
        LET k == Keys(rows)[j]
            g == SelectSeq(rows, LAMBDA r : r.year * 100 + r.month = k)
        IN  [year |-> k \div 100, month |-> k % 100] @@ (col :> Mean(g, col))])

\* series[:n]: the first n values by position, all of them when there are
\* fewer
Slice(series, n) ==
    SubSeq(series, 1, IF n < Len(series) THEN n ELSE Len(series))

\* scipy.stats.pearsonr(x, y) raises ValueError when the lengths differ or
\* are below 2; otherwise it pairs the values by position.  The call is
\* recorded with its arguments; the coefficient is only printed.
pearsonr(x, y) ==
    [x |-> x, y |-> y, raised |-> (Len(x) # Len(y) \/ Len(x) < 2)]

\* ------------------------------------------------------------ RADWave

\* a call of a method of an object, as the call logs record it
Call(obj, fn, arg) == [obj |-> obj, fn |-> fn, arg |-> arg]

\* rwave.waveAnalysis(altimeterURL=url, bbox=bbox, ...): nothing loaded yet
waveAnalysis(url, bbox) ==
    [altimeterURL |-> url, bbox |-> bbox, data |-> <<>>, timeseries |-> <<>>,
     cyclone_data |-> <<>>]

\* obj.processAltimeterData(...) and obj.readAltimeterData(...): the object
\* holds the records found for its own URL list
LoadData(obj, records) == [obj EXCEPT !.data = records]

\* obj.generateTimeSeries(): obj.timeseries is built from obj.data, a table
\* with the columns year, month, wh and period among others
generateTimeSeries(obj) == [obj EXCEPT !.timeseries = RangeIndex(obj.data)]

\* obj.computeSeasonalCharacteristics(series=, time=, lonlat=): the table of
\* seasonal means of the series over the box, from obj.timeseries
computeSeasonalCharacteristics(obj, series, t, box) ==
    [series |-> series, time |-> t, lonlat |-> box,
     rows |-> Len(obj.timeseries)]

\* ------------------------------------------------------------ WaveAnalysis.ipynb

\* the kernel starts on the first cell with some data on disk and on the web
WaStart ==
    /\ env \in Environments
    /\ waPc = "create"
    /\ wa = <<>>
    /\ waLog = <<>>
    /\ tiles = <<>>
    /\ lonlat = <<>>
    /\ seasons = <<>>
    /\ curves = <<>>
    /\ legend = <<>>
    /\ time = <<>>
    /\ soi_df = <<>>
    /\ aoi_df = <<>>
    /\ sam_df = <<>>
    /\ wh_df = <<>>
    /\ T_df = <<>>
    /\ pearson = <<>>

\* the variables of the climate cells
climateVars == <<time, soi_df, aoi_df, sam_df, wh_df, T_df, pearson>>

\* the variables of the seasonality cells
tileVars == <<tiles, lonlat, seasons, curves, legend>>

\* the bounding box of the study area, in degrees
Bbox == <<Float(152), Float(155), Float(-36), Float(-34)>>

\* wa = rwave.waveAnalysis(altimeterURL='../../dataset/IMOSURLs.txt', ...)
WaCreate ==
    /\ waPc = "create"
    /\ wa' = waveAnalysis("IMOSURLs.txt", Bbox)
    /\ waLog' = Append(waLog, Call("wa", "waveAnalysis", Bbox))
    /\ waPc' = "process"
    /\ UNCHANGED <<env, tileVars, climateVars>>
    /\ UNCHANGED <<yasiVars, cyVars, wsVars>>

\* wa.processAltimeterData(altimeter_pick='all', saveCSV='altimeterData.csv')
WaProcess ==
    /\ waPc = "process"
    /\ wa' = LoadData(wa, env.alti)
    /\ waLog' = Append(waLog, Call("wa", "processAltimeterData", <<>>))
    /\ waPc' = "read"
    /\ UNCHANGED <<env, tileVars, climateVars>>
    /\ UNCHANGED <<yasiVars, cyVars, wsVars>>

\* wa.readAltimeterData(saveCSV='altimeterData.csv'): the records saved by
\* the cell before
WaRead ==
    /\ waPc = "read"
    /\ wa' = LoadData(wa, wa.data)
    /\ waLog' = Append(waLog, Call("wa", "readAltimeterData", <<>>))
    /\ waPc' = "visualise"
    /\ UNCHANGED <<env, tileVars, climateVars>>
    /\ UNCHANGED <<yasiVars, cyVars, wsVars>>

\* wa.visualiseData(...)
WaVisualise ==
    /\ waPc = "visualise"
    /\ waLog' = Append(waLog, Call("wa", "visualiseData", <<>>))
    /\ waPc' = "generate"
    /\ UNCHANGED <<env, wa, tileVars, climateVars>>
    /\ UNCHANGED <<yasiVars, cyVars, wsVars>>

\* wa.generateTimeSeries()
WaGenerate ==
    /\ waPc = "generate"
    /\ wa' = generateTimeSeries(wa)
    /\ waLog' = Append(waLog, Call("wa", "generateTimeSeries", <<>>))
    /\ waPc' = "display"
    /\ UNCHANGED <<env, tileVars, climateVars>>
    /\ UNCHANGED <<yasiVars, cyVars, wsVars>>

\* display(wa.timeseries)
WaDisplay ==
    /\ waPc = "display"
    /\ waLog' = Append(waLog, Call("wa", "timeseries", <<>>))
    /\ waPc' = "list"
    /\ UNCHANGED <<env, wa, tileVars, climateVars>>
    /\ UNCHANGED <<yasiVars, cyVars, wsVars>>

\* list(wa.timeseries)
WaList ==
    /\ waPc = "list"
    /\ waLog' = Append(waLog, Call("wa", "timeseries", <<>>))
    /\ waPc' = "plotTimeSeries"
    /\ UNCHANGED <<env, wa, tileVars, climateVars>>
    /\ UNCHANGED <<yasiVars, cyVars, wsVars>>

\* the five wa.plotTimeSeries(...) calls of one cell
WaPlotTimeSeries ==
    /\ waPc = "plotTimeSeries"
    /\ waLog' = waLog \o [i \in 1..5 |-> Call("wa", "plotTimeSeries", <<>>)]
    /\ waPc' = "seasonAll"
    /\ UNCHANGED <<env, wa, tileVars, climateVars>>
    /\ UNCHANGED <<yasiVars, cyVars, wsVars>>

\* wh_all = wa.computeSeasonalCharacteristics(series='wh', time=[1998,2023],
\*                                            lonlat=None, ...)
WaSeasonAll ==
    /\ waPc = "seasonAll"
    /\ waLog' = Append(waLog,
                       Call("wa", "computeSeasonalCharacteristics", <<>>))
    /\ waPc' = "displayAll"
    /\ UNCHANGED <<env, wa, tileVars, climateVars>>
    /\ UNCHANGED <<yasiVars, cyVars, wsVars>>

\* display(wh_all)
WaDisplayAll ==
    /\ waPc = "displayAll"
    /\ waPc' = "tiles"
    /\ UNCHANGED <<env, wa, waLog, tileVars, climateVars>>
    /\ UNCHANGED <<yasiVars, cyVars, wsVars>>

\* the list [a, b, c, d] of floats given in halves of a degree
Halves(a, b, c, d) == <<Rat(a, 2), Rat(b, 2), Rat(c, 2), Rat(d, 2)>>

\* the four tiles.append([lon min, lon max, lat min, lat max]) of the cell
TileList ==
    <<Halves(304, 306, -72, -70), Halves(306, 308, -72, -70),
      Halves(304, 306, -70, -68), Halves(306, 308, -70, -68)>>

\* the four lonlat.append([lon, lat]) of the cell
LonLatList ==
    <<<<Rat(305, 2), Rat(-71, 2)>>, <<Rat(307, 2), Rat(-71, 2)>>,
      <<Rat(305, 2), Rat(-69, 2)>>, <<Rat(307, 2), Rat(-69, 2)>>>>

\* the loop with every call given the first tile
SeasonsOf_First(obj, boxes) ==
    [k \in 1..4 |->
        computeSeasonalCharacteristics(obj, "wh", <<1998, 2023>>, boxes[1])]

\* for k in range(4): seasons.append(wa.computeSeasonalCharacteristics(
\*     series='wh', time=[1998,2023], lonlat=tiles[k], plot=False))
SeasonsOf(obj, boxes) ==
    [k \in 1..4 |->
        computeSeasonalCharacteristics(obj, "wh", <<1998, 2023>>, boxes[k])]

\* the cell that fills tiles, lonlat and seasons
WaTiles ==
    /\ waPc = "tiles"
    /\ tiles' = TileList
    /\ lonlat' = LonLatList
    /\ seasons' = SeasonsOf(wa, TileList)
    /\ waLog' = waLog \o
           [k \in 1..4 |->
               Call("wa", "computeSeasonalCharacteristics", TileList[k])]
    /\ waPc' = "plotSeasons"
    /\ UNCHANGED <<env, wa, curves, legend, climateVars>>
    /\ UNCHANGED <<yasiVars, cyVars, wsVars>>

\* for k in range(4): yearwh = seasons[k]['mean']; yearwh.plot(...)
CurvesOf(tables) ==
    [k \in 1..4 |-> [column |-> "mean", table |-> tables[k]]]

\* the cell that draws the annual means: the four curves on ax, then
\* ax.legend([lonlat[0],lonlat[1],lonlat[2],lonlat[3]])
WaPlotSeasons ==
    /\ waPc = "plotSeasons"
    /\ curves' = CurvesOf(seasons)
    /\ legend' = <<lonlat[1], lonlat[2], lonlat[3], lonlat[4]>>
    /\ waPc' = "time"
    /\ UNCHANGED <<env, wa, waLog, tiles, lonlat, seasons, climateVars>>
    /\ UNCHANGED <<yasiVars, cyVars, wsVars>>

\* time = [1998,2023]
WaTime ==
    /\ waPc = "time"
    /\ time' = <<1998, 2023>>
    /\ waPc' = "soi"
    /\ UNCHANGED <<env, wa, waLog, tileVars>>
    /\ UNCHANGED <<soi_df, aoi_df, sam_df, wh_df, T_df, pearson>>
    /\ UNCHANGED <<yasiVars, cyVars, wsVars>>

\* soi_df["day"] = np.ones(len(soi_df["Value"]), dtype=int)
Ones(rows) == [i \in 1..Len(rows) |-> rows[i] @@ ("day" :> 1)]

\* the SOI cell up to the day column: the file read, the date split into
\* year and month, the years outside the time frame dropped, the anomaly
SoiTable(lines, t) ==
    Ones(Anomaly(TimeFrame(
            DecodeDate(RangeIndex(read_csv(lines, <<"Date", "Value">>, 0))), t),
         "Value"))

\* the SOI cell; pd.to_datetime raises ValueError on a row that is no date
WaSoi ==
    /\ waPc = "soi"
    /\ \E t \in {SoiTable(env.soi, time)} :
          IF \A i \in 1..Len(t) : IsDate(t[i])
          THEN soi_df' = to_datetime(t) /\ waPc' = "aoi"
          ELSE soi_df' = t /\ waPc' = "ValueError"
    /\ UNCHANGED <<env, wa, waLog, tileVars>>
    /\ UNCHANGED <<time, aoi_df, sam_df, wh_df, T_df, pearson>>
    /\ UNCHANGED <<yasiVars, cyVars, wsVars>>

\* the AOI cell
WaAoi ==
    /\ waPc = "aoi"
    /\ aoi_df' = Anomaly(TimeFrame(ReadAoi(env.aoi), time), "Value")
    /\ waPc' = "sam"
    /\ UNCHANGED <<env, wa, waLog, tileVars>>
    /\ UNCHANGED <<time, soi_df, sam_df, wh_df, T_df, pearson>>
    /\ UNCHANGED <<yasiVars, cyVars, wsVars>>

\* the SAM cell: the wide table stacked into rows (year, month, Value)
WaSam ==
    /\ waPc = "sam"
    /\ sam_df' = Anomaly(TimeFrame(RangeIndex(Stack(env.sam)), time), "Value")
    /\ waPc' = "wh"
    /\ UNCHANGED <<env, wa, waLog, tileVars>>
    /\ UNCHANGED <<time, soi_df, aoi_df, wh_df, T_df, pearson>>
    /\ UNCHANGED <<yasiVars, cyVars, wsVars>>

\* the table of monthly means of a wave series with its anomaly
WaveTable(series, col, t) ==
    Anomaly(TimeFrame(GroupMean(series, col), t), col)

\* the monthly significant wave height cell
WaWh ==
    /\ waPc = "wh"
    /\ wh_df' = WaveTable(wa.timeseries, "wh", time)
    /\ waLog' = Append(waLog, Call("wa", "timeseries", <<>>))
    /\ waPc' = "T"
    /\ UNCHANGED <<env, wa, tileVars>>
    /\ UNCHANGED <<time, soi_df, aoi_df, sam_df, T_df, pearson>>
    /\ UNCHANGED <<yasiVars, cyVars, wsVars>>

\* the monthly wave period cell
WaT ==
    /\ waPc = "T"
    /\ T_df' = WaveTable(wa.timeseries, "period", time)
    /\ waLog' = Append(waLog, Call("wa", "timeseries", <<>>))
    /\ waPc' = "corr_wh"
    /\ UNCHANGED <<env, wa, tileVars>>
    /\ UNCHANGED <<time, soi_df, aoi_df, sam_df, wh_df, pearson>>
    /\ UNCHANGED <<yasiVars, cyVars, wsVars>>

\* scipy.stats.pearsonr on the anomalies of the months both tables hold
Correlate_ByDate(index, wave) ==
    pearsonr(
        Column(SelectSeq(index, LAMBDA r : \E i \in 1..Len(wave) :
                   wave[i].year = r.year /\ wave[i].month = r.month),
               "anomaly"),
        Column(SelectSeq(wave, LAMBDA r : \E i \in 1..Len(index) :
                   index[i].year = r.year /\ index[i].month = r.month),
               "anomaly"))

\* scipy.stats.pearsonr(index['anomaly'], wave['anomaly'][:len(index)]) with
\* both series cut to the shorter one
Correlate_Both(index, wave) ==
    pearsonr(Slice(Column(index, "anomaly"), Len(wave)),
             Slice(Column(wave, "anomaly"), Len(index)))

\* scipy.stats.pearsonr(index['anomaly'], wave['anomaly'][:len(index)])
Correlate(index, wave) ==
    pearsonr(Column(index, "anomaly"),
             Slice(Column(wave, "anomaly"), Len(index)))

\* the calls of a cell that are made: those up to the first one that raises
RECURSIVE Made(_)
Made(calls) ==
    IF calls = <<>> THEN <<>>
    ELSE IF calls[1].raised THEN <<calls[1]>>
    ELSE <<calls[1]>> \o Made(Tail(calls))

\* the three correlations of a wave table, with SOI, AOI and SAM in turn
Correlations(wave) ==
    Made(<<Correlate(soi_df, wave), Correlate(aoi_df, wave),
           Correlate(sam_df, wave)>>)

\* a call of the cell raised
Raised(calls) == calls[Len(calls)].raised

\* the cell of the correlations with the significant wave height
WaCorrWh ==
    /\ waPc = "corr_wh"
    /\ pearson' = pearson \o Correlations(wh_df)
    /\ waPc' = IF Raised(Correlations(wh_df)) THEN "ValueError" ELSE "corr_T"
    /\ UNCHANGED <<env, wa, waLog, tileVars>>
    /\ UNCHANGED <<time, soi_df, aoi_df, sam_df, wh_df, T_df>>
    /\ UNCHANGED <<yasiVars, cyVars, wsVars>>

\* the cell of the correlations with the wave period
WaCorrT ==
    /\ waPc = "corr_T"
    /\ pearson' = pearson \o Correlations(T_df)
    /\ waPc' = IF Raised(Correlations(T_df)) THEN "ValueError" ELSE "done"
    /\ UNCHANGED <<env, wa, waLog, tileVars>>
    /\ UNCHANGED <<time, soi_df, aoi_df, sam_df, wh_df, T_df>>
    /\ UNCHANGED <<yasiVars, cyVars, wsVars>>

\* the cells of WaveAnalysis.ipynb, run from the first to the last
WaNext ==
    \/ WaCreate \/ WaProcess \/ WaRead \/ WaVisualise \/ WaGenerate
    \/ WaDisplay \/ WaList \/ WaPlotTimeSeries \/ WaSeasonAll \/ WaDisplayAll
    \/ WaTiles \/ WaPlotSeasons \/ WaTime \/ WaSoi \/ WaAoi \/ WaSam
    \/ WaWh \/ WaT \/ WaCorrWh \/ WaCorrT

\* one run of WaveAnalysis.ipynb on some data
InitWaveAnalysis == YasiOff /\ CyOff /\ WsOff /\ WaStart

SpecWaveAnalysis == InitWaveAnalysis /\ [][WaNext]_vars

\* ------------------------------------------------------------ the wave-sediment notebook

\* the kernel at its first cell
WsStart ==
    /\ wsPc = "files"
    /\ params = <<>>
    /\ wavesed = <<>>
    /\ wdir = <<>>
    /\ wsLog = <<>>

\* bfile = '../../dataset/FraserDEM.csv' and rfac = 1
WsFiles ==
    /\ wsPc = "files"
    /\ params' = [bfile |-> "FraserDEM.csv", rfac |-> 1]
    /\ wsPc' = "forcing"
    /\ UNCHANGED <<wavesed, wdir, wsLog>>
    /\ UNCHANGED <<yasiVars, waVars, cyVars>>

\* H0 = 2, dir = 0, wbase = 10, slvl = 0. and outname = 'wdir0'
WsForcing ==
    /\ wsPc = "forcing"
    /\ params' = params @@ [H0 |-> 2, dir |-> 0, wbase |-> 10, slvl |-> Zero,
                            outname |-> "wdir0"]
    /\ wsPc' = "grain"
    /\ UNCHANGED <<wavesed, wdir, wsLog>>
    /\ UNCHANGED <<yasiVars, waVars, cyVars>>

\* d50 = 0.0001
WsGrain ==
    /\ wsPc = "grain"
    /\ params' = params @@ [d50 |-> Rat(1, 10000)]
    /\ wsPc' = "create"
    /\ UNCHANGED <<wavesed, wdir, wsLog>>
    /\ UNCHANGED <<yasiVars, waVars, cyVars>>

\* wavesed = ocean.wave(filename=bfile, wavebase=wbase, resfac=rfac, dia=d50):
\* a model with no sea level, no waves and no sediment transport yet
WsCreate ==
    /\ wsPc = "create"
    /\ wavesed' = [filename |-> params.bfile, wavebase |-> params.wbase,
                   resfac |-> params.rfac, dia |-> params.d50,
                   sealevel |-> <<>>, waves |-> <<>>, sed |-> <<>>]
    /\ wsLog' = Append(wsLog, Call("wavesed", "wave", <<>>))
    /\ wsPc' = "findland"
    /\ UNCHANGED <<params, wdir>>
    /\ UNCHANGED <<yasiVars, waVars, cyVars>>

\* wavesed.findland(slvl)
WsFindLand ==
    /\ wsPc = "findland"
    /\ wavesed' = [wavesed EXCEPT !.sealevel = <<params.slvl>>]
    /\ wsLog' = Append(wsLog, Call("wavesed", "findland", <<params.slvl>>))
    /\ wsPc' = "wavesource"
    /\ UNCHANGED <<params, wdir>>
    /\ UNCHANGED <<yasiVars, waVars, cyVars>>

\* wavesed.wavesource(d): the boundary from which waves of direction d enter
\* the grid, given the land found for the sea level
wavesource(model, d) == <<[dir |-> d, sealevel |-> model.sealevel]>>

\* wdir = wavesed.wavesource(dir)
WsWaveSource ==
    /\ wsPc = "wavesource"
    /\ wdir' = wavesource(wavesed, params.dir)
    /\ wsLog' = Append(wsLog, Call("wavesed", "wavesource", <<params.dir>>))
    /\ wsPc' = "cmptwaves"
    /\ UNCHANGED <<params, wavesed>>
    /\ UNCHANGED <<yasiVars, waVars, cyVars>>

\* the source of a call wavesed.cmptwaves(src=wavesed.wavesource(90), ...)
SourceOf_Fresh(model, src) == wavesource(model, 90)

\* the source of the call wavesed.cmptwaves(src=wdir, ...)
SourceOf(model, src) == src

\* wavesed.cmptwaves(src=wdir, h0=H0, sigma=1.)
WsCmptWaves ==
    /\ wsPc = "cmptwaves"
    /\ wavesed' = [wavesed EXCEPT
                      !.waves = <<[src |-> SourceOf(wavesed, wdir),
                                   h0 |-> params.H0]>>]
    /\ wsLog' = Append(wsLog, Call("wavesed", "cmptwaves",
                                   SourceOf(wavesed, wdir)))
    /\ wsPc' = "plotWaves"
    /\ UNCHANGED <<params, wdir>>
    /\ UNCHANGED <<yasiVars, waVars, cyVars>>

\* the five wavesed.plotData(...) calls of one cell
WsPlotWaves ==
    /\ wsPc = "plotWaves"
    /\ wsLog' = wsLog \o [i \in 1..5 |-> Call("wavesed", "plotData", <<>>)]
    /\ wsPc' = "cmptsed"
    /\ UNCHANGED <<params, wavesed, wdir>>
    /\ UNCHANGED <<yasiVars, waVars, cyVars>>

\* wavesed.cmptsed(sigma=1.): the transport under the waves computed before
WsCmptSed ==
    /\ wsPc = "cmptsed"
    /\ wavesed' = [wavesed EXCEPT !.sed = wavesed.waves]
    /\ wsLog' = Append(wsLog, Call("wavesed", "cmptsed", <<>>))
    /\ wsPc' = "plotSed"
    /\ UNCHANGED <<params, wdir>>
    /\ UNCHANGED <<yasiVars, waVars, cyVars>>

\* the three wavesed.plotData(...) calls of the last cell
WsPlotSed ==
    /\ wsPc = "plotSed"
    /\ wsLog' = wsLog \o [i \in 1..3 |-> Call("wavesed", "plotData", <<>>)]
    /\ wsPc' = "done"
    /\ UNCHANGED <<params, wavesed, wdir>>
    /\ UNCHANGED <<yasiVars, waVars, cyVars>>

\* the cells of the wave-sediment notebook, run from the first to the last
WsNext ==
    \/ WsFiles \/ WsForcing \/ WsGrain \/ WsCreate \/ WsFindLand
    \/ WsWaveSource \/ WsCmptWaves \/ WsPlotWaves \/ WsCmptSed \/ WsPlotSed

\* ------------------------------------------------------------ the cyclone notebook

\* the altimeter records found east and west of the cyclone track
YasiData ==
    [east |-> <<[year |-> 2011, month |-> 1, wh |-> Rat(9, 2), period |-> Rat(9, 1)],
                [year |-> 2011, month |-> 2, wh |-> Rat(6, 1), period |-> Rat(11, 1)]>>,
     west |-> <<[year |-> 2011, month |-> 1, wh |-> Rat(5, 2), period |-> Rat(7, 1)],
                [year |-> 2011, month |-> 2, wh |-> Rat(7, 2), period |-> Rat(8, 1)]>>]

\* the kernel at its first cell
CyStart ==
    /\ cyPc = "track"
    /\ cyc = <<>>
    /\ wa_east = <<>>
    /\ wa_west = <<>>
    /\ cyLog = <<>>

\* cyc = rwave.waveAnalysis(cycloneCSV='../../dataset/2010-YASI.csv')
CyTrack ==
    /\ cyPc = "track"
    /\ cyc' = waveAnalysis("", <<>>)
    /\ cyLog' = Append(cyLog, Call("cyc", "waveAnalysis", <<>>))
    /\ cyPc' = "plotTracks"
    /\ UNCHANGED <<wa_east, wa_west>>
    /\ UNCHANGED <<yasiVars, waVars, wsVars>>

\* cyc.plotCycloneTracks(...)
CyPlotTracks ==
    /\ cyPc = "plotTracks"
    /\ cyLog' = Append(cyLog, Call("cyc", "plotCycloneTracks", <<>>))
    /\ cyPc' = "east"
    /\ UNCHANGED <<cyc, wa_east, wa_west>>
    /\ UNCHANGED <<yasiVars, waVars, wsVars>>

\* wa_east = rwave.waveAnalysis(altimeterURL='../../dataset/IMOS_YASI_east.txt',
\* bbox=[170, 175, -17, -12], ...) and wa_east.processAltimeterData(...)
CyEast ==
    /\ cyPc = "east"
    /\ wa_east' = LoadData(waveAnalysis("IMOS_YASI_east.txt",
                                        <<170, 175, -17, -12>>),
                           YasiData.east)
    /\ cyLog' = cyLog \o <<Call("wa_east", "waveAnalysis", <<>>),
                           Call("wa_east", "processAltimeterData", <<>>)>>
    /\ cyPc' = "west"
    /\ UNCHANGED <<cyc, wa_west>>
    /\ UNCHANGED <<yasiVars, waVars, wsVars>>

\* wa_west = rwave.waveAnalysis(altimeterURL='../../dataset/IMOS_YASI_west.txt',
\* bbox=[156, 161, -16, -12], ...) and wa_west.processAltimeterData(...)
CyWest ==
    /\ cyPc = "west"
    /\ wa_west' = LoadData(waveAnalysis("IMOS_YASI_west.txt",
                                        <<156, 161, -16, -12>>),
                           YasiData.west)
    /\ cyLog' = cyLog \o <<Call("wa_west", "waveAnalysis", <<>>),
                           Call("wa_west", "processAltimeterData", <<>>)>>
    /\ cyPc' = "visualise"
    /\ UNCHANGED <<cyc, wa_east>>
    /\ UNCHANGED <<yasiVars, waVars, wsVars>>

\* wa_east.visualiseData(...) and wa_west.visualiseData(...)
CyVisualise ==
    /\ cyPc = "visualise"
    /\ cyLog' = cyLog \o <<Call("wa_east", "visualiseData", <<>>),
                           Call("wa_west", "visualiseData", <<>>)>>
    /\ cyPc' = "generate"
    /\ UNCHANGED <<cyc, wa_east, wa_west>>
    /\ UNCHANGED <<yasiVars, waVars, wsVars>>

\* wa_east.generateTimeSeries() and wa_west.generateTimeSeries()
CyGenerate ==
    /\ cyPc = "generate"
    /\ wa_east' = generateTimeSeries(wa_east)
    /\ wa_west' = generateTimeSeries(wa_west)
    /\ cyLog' = cyLog \o <<Call("wa_east", "generateTimeSeries", <<>>),
                           Call("wa_west", "generateTimeSeries", <<>>)>>
    /\ cyPc' = "close2Track"
    /\ UNCHANGED cyc
    /\ UNCHANGED <<yasiVars, waVars, wsVars>>

\* close2Track reading the time series of wa_west whatever the object
close2Track_West(obj, near) ==
    [obj EXCEPT !.cyclone_data = Pick(wa_west.timeseries, near)]

\* obj.close2Track(radius=2., dtmax=6.): obj.cyclone_data holds the rows of
\* obj.timeseries found near the track, possibly none
close2Track(obj, near) ==
    [obj EXCEPT !.cyclone_data = Pick(obj.timeseries, near)]

\* wa_east.close2Track(...), display(wa_east.cyclone_data),
\* wa_west.close2Track(...), display(wa_west.cyclone_data)
CyClose2Track ==
    /\ cyPc = "close2Track"
    /\ \E e \in SUBSET (1..Len(wa_east.timeseries)) :
          wa_east' = close2Track(wa_east, e)
    /\ \E w \in SUBSET (1..Len(wa_west.timeseries)) :
          wa_west' = close2Track(wa_west, w)
    /\ cyLog' = cyLog \o <<Call("wa_east", "close2Track", <<>>),
                           Call("wa_west", "close2Track", <<>>)>>
    /\ cyPc' = "plotPoint"
    /\ UNCHANGED cyc
    /\ UNCHANGED <<yasiVars, waVars, wsVars>>

\* wa_west.plotCycloneAltiPoint(showinfo=False, ...)
CyPlotPoint ==
    /\ cyPc = "plotPoint"
    /\ cyLog' = Append(cyLog, Call("wa_west", "plotCycloneAltiPoint", <<>>))
    /\ cyPc' = "plotInfo"
    /\ UNCHANGED <<cyc, wa_east, wa_west>>
    /\ UNCHANGED <<yasiVars, waVars, wsVars>>

\* wa_west.plotCycloneAltiPoint(showinfo=True, ...)
CyPlotInfo ==
    /\ cyPc = "plotInfo"
    /\ cyLog' = Append(cyLog, Call("wa_west", "plotCycloneAltiPoint", <<>>))
    /\ cyPc' = "done"
    /\ UNCHANGED <<cyc, wa_east, wa_west>>
    /\ UNCHANGED <<yasiVars, waVars, wsVars>>

\* the cells of the cyclone notebook, run from the first to the last
CyNext ==
    \/ CyTrack \/ CyPlotTracks \/ CyEast \/ CyWest \/ CyVisualise
    \/ CyGenerate \/ CyClose2Track \/ CyPlotPoint \/ CyPlotInfo

\* ------------------------------------------------------------ the three notebooks

\* the data hold every month of the calendar once, and nothing else
Complete(e) ==
    /\ e.soi = Pick(SoiLines, DOMAIN SoiLines \ SoiBad)
    /\ e.aoi = AoiLines
    /\ e.sam = SamFile(DOMAIN Calendar)
    /\ MonthsOf(e.alti) = MonthsOf(Calendar) /\ Len(e.alti) = Len(Calendar)

\* the three notebooks, each in a kernel of its own, started together
InitKernels ==
    /\ YasiOff
    /\ WaStart /\ Complete(env)
    /\ CyStart
    /\ WsStart

\* a step of one of the three kernels
KernelsNext == WaNext \/ CyNext \/ WsNext

SpecKernels == InitKernels /\ [][KernelsNext]_vars

\* ------------------------------------------------------------ properties

\* the Iribarren column has been computed
Computed == pc \in {"plot1", "plot2", "done"}

\* the selections of the first figure have been made
Selected == pc \in {"plot2", "done"}

IsPos(x) == x.k = "fin" /\ x.s > 0

IsZero(x) == x.k = "fin" /\ x.s = 0

IsNeg(x) == x.k = "fin" /\ x.s < 0

\* the record satisfies the domain constraints hs > 0, tp > 0, beta >= 0
Valid(r) == IsPos(r.hs) /\ IsPos(r.tp) /\ (IsPos(r.beta) \/ IsZero(r.beta))

InSeq(i, seq) == \E j \in 1..Len(seq) : seq[j] = i

\* the positive square root of a positive x of the plain form
Root(x) == FromSquare(1, x.n, 1, x.d, 1, x.p)

\* e is the finite value with e * sqrt(hs / l0) = beta, which is
\* e = beta / sqrt(hs / l0) for hs > 0 and l0 > 0
IsIribarren(e, hs, beta, l0) ==
    /\ e.k = "fin"
    /\ IsPos(FDiv(hs, l0))
    /\ FMul(e, Root(FDiv(hs, l0))) = beta

\* C1: for every period > 0, wave height > 0 and slope >= 0 the value
\* iribarrenNb stores for the row is slope / sqrt(waveHeight / L0), L0 being the
\* deep-water wavelength of the row's own period
C1_IribarrenFormula ==
    Computed =>
        \A i \in 1..Len(df) :
            Valid(df[i]) =>
                IsIribarren(df[i].iribarren, df[i].hs, df[i].beta, Lp(df[i].tp))

\* a computed table with a valid row of positive slope, whose Iribarren number
\* is an irrational positive value
C1_Witness ==
    /\ Computed
    /\ \E i \in 1..Len(df) :
          /\ Valid(df[i])
          /\ IsPos(df[i].beta)
          /\ IsPos(df[i].iribarren)
          /\ df[i].iribarren.root

ClassesOf(i) ==
    {c \in {"dissipative", "intermediate", "reflective"} :
        \/ c = "dissipative" /\ InSeq(i, ids1)
        \/ c = "intermediate" /\ InSeq(i, ids2)
        \/ c = "reflective" /\ InSeq(i, ids3)}

\* C3: a row whose Iribarren number e is below 0.5 is selected as dissipative,
\* one with 0.5 <= e < 1.5 as intermediate, one with e >= 1.5 as reflective;
\* 0.5 itself is intermediate, 1.5 itself reflective, 0.4999 dissipative and
\* 1.4999 intermediate
C3_Classification ==
    Selected =>
        \A i \in 1..Len(df) :
            LET e == df[i].iribarren
            IN  /\ e.k # "nan" /\ Cmp(e, Rat(1, 2)) < 0
                      => ClassesOf(i) = {"dissipative"}
                /\ e.k # "nan" /\ Cmp(e, Rat(1, 2)) >= 0 /\ Cmp(e, Rat(3, 2)) < 0
                      => ClassesOf(i) = {"intermediate"}
                /\ e.k # "nan" /\ Cmp(e, Rat(3, 2)) >= 0
                      => ClassesOf(i) = {"reflective"}
                /\ e = Rat(4999, 10000) => ClassesOf(i) = {"dissipative"}
                /\ e = Rat(1, 2) => ClassesOf(i) = {"intermediate"}
                /\ e = Rat(14999, 10000) => ClassesOf(i) = {"intermediate"}
                /\ e = Rat(3, 2) => ClassesOf(i) = {"reflective"}

\* a selected table with one row exactly on each threshold
C3_Witness ==
    /\ Selected
    /\ \E i, j \in 1..Len(df) :
          /\ df[i].iribarren = Rat(1, 2)
          /\ InSeq(i, ids2)
          /\ df[j].iribarren = Rat(3, 2)
          /\ InSeq(j, ids3)

\* the places <<series, position>> of the first figure that draw row i
SlotsOf(i) ==
    UNION { { <<k, j>> : j \in {j \in 1..Len(fig1[k]) : fig1[k][j].row = i} } :
              k \in 1..Len(fig1) }

\* the input fields of row i of the table are those of data line i of the file
CarriesLine(i) ==
    \A j \in 1..Len(names) : df[i][names[j]] = file[i + 1][j]

\* record i of the result has its own derived values: its Iribarren number
\* computed from the inputs of input record i, exactly one beach type, and
\* one point of the first figure, at its Iribarren number and its r2 / hs
Derived(i) ==
    /\ IsIribarren(df[i].iribarren, file[i + 1][5], file[i + 1][7],
                   Lp(file[i + 1][6]))
    /\ Cardinality(ClassesOf(i)) = 1
    /\ Cardinality(SlotsOf(i)) = 1
    /\ \A sl \in SlotsOf(i) :
          /\ fig1[sl[1]][sl[2]].x = df[i].iribarren
          /\ FMul(fig1[sl[1]][sl[2]].y, file[i + 1][5]) = file[i + 1][10]

C5_Original ==
    pc = "done" => \A i \in 1..Len(df) : Valid(df[i])

\* C5, amended: one bad row never makes the batch fail: in the finished
\* batch every valid record has its derived values, whatever the other
\* records hold; the violating records are neither removed nor reported, they
\* stay in the result at their positions with the value the arithmetic gave
C5_PartialFailure ==
    pc = "done" =>
        /\ Len(df) = Len(file) - 1
        /\ \A i \in 1..Len(df) :
              /\ CarriesLine(i)
              /\ "iribarren" \in DOMAIN df[i]
              /\ Valid(df[i]) => Derived(i)

\* a finished batch of a valid record and a violating one, the latter still in
\* the result with an Iribarren number that is not finite
C5_Witness ==
    /\ pc = "done"
    /\ \E i, j \in 1..Len(df) :
          /\ Valid(df[i])
          /\ ~Valid(df[j])
          /\ ~IsFinite(df[j].iribarren)

\* the number of data lines of the file that violate the domain constraints
Malformed ==
    Cardinality({i \in 2..Len(file) :
        ~Valid(M(file[i][5], file[i][6], file[i][7], file[i][10]))})

\* C6 as stated: the result has as many records as the input less the
\* malformed ones
C6_Original ==
    pc = "done" => Len(df) = (Len(file) - 1) - Malformed

Ascending(seq) == \A j \in 1..(Len(seq) - 1) : seq[j] < seq[j + 1]

\* C6, amended: the result has as many records as the input, the malformed
\* ones included; every input record is in the result, at its input position,
\* and none is moved to an error list; each selection lists its rows in input
\* order and no row is in two selections
C6_CountAndOrder ==
    /\ pc # "read_csv" =>
          /\ Len(df) = Len(file) - 1
          /\ \A i \in 1..Len(df) : CarriesLine(i)
    /\ Selected =>
          /\ Ascending(ids1) /\ Ascending(ids2) /\ Ascending(ids3)
          /\ \A i \in 1..Len(df) : Cardinality(ClassesOf(i)) <= 1
          /\ \A k \in 1..3 : \A j \in 1..Len(fig1[k]) :
                fig1[k][j].row = (<<ids1, ids2, ids3>>)[k][j]

\* a finished batch whose malformed first record and valid second record are
\* both in the result and in the same selection
C6_Witness ==
    /\ pc = "done"
    /\ Len(df) = 2
    /\ ~Valid(df[1])
    /\ Valid(df[2])
    /\ \E k \in 1..3 : (<<ids1, ids2, ids3>>)[k] = <<1, 2>>

NonPos(x) == IsZero(x) \/ IsNeg(x)

\* C7 as stated: iribarrenNb returns no value for a record whose wave height
\* or period is not positive
C7_Original ==
    Computed =>
        \A i \in 1..Len(df) :
            (NonPos(df[i].hs) \/ NonPos(df[i].tp)) =>
                "iribarren" \notin DOMAIN df[i]

\* C7, amended: iribarrenNb raises nothing for a finite slope and a wave
\* height or period that is not positive, and returns a float: for a zero wave
\* height and a non-zero period, infinity with the sign of the slope, or NaN
\* when the slope is zero; for a negative wave height and a non-zero period,
\* NaN; for a zero period, 0 with a positive wave height, NaN with a zero one,
\* and NaN or 0 (as the build evaluates -inf ** 0.5) with a negative one; for a
\* negative period and a positive wave height, the value of the period's
\* absolute value
C7_NoInvalidArgument ==
    Computed =>
        \A i \in 1..Len(df) :
            LET r == df[i]
                e == df[i].iribarren
            IN  IsFinite(r.beta) /\ IsFinite(r.hs) /\ IsFinite(r.tp) =>
                  /\ IsZero(r.hs) /\ ~IsZero(r.tp) =>
                        e = IF IsZero(r.beta) THEN NaN ELSE Inf(r.beta.s)
                  /\ IsNeg(r.hs) /\ ~IsZero(r.tp) => e = NaN
                  /\ IsZero(r.tp) /\ IsPos(r.hs) => e = Zero
                  /\ IsZero(r.tp) /\ IsZero(r.hs) => e = NaN
                  /\ IsZero(r.tp) /\ IsNeg(r.hs) => e \in {NaN, Zero}
                  /\ IsNeg(r.tp) /\ IsPos(r.hs) =>
                        IsIribarren(e, r.hs, r.beta,
                                    Lp(FMul(Rat(-1, 1), r.tp)))

\* a computed table with a zero wave height giving +inf and a negative wave
\* height giving NaN
C7_Witness ==
    /\ Computed
    /\ \E i, j \in 1..Len(df) :
          /\ IsZero(df[i].hs)
          /\ df[i].iribarren = Inf(1)
          /\ IsNeg(df[j].hs)
          /\ df[j].iribarren = NaN

\* C8 as stated: the wavelength fails for a period that is not positive, so
\* that no table with such a period gets its Iribarren column
C8_Original ==
    Computed => \A i \in 1..Len(df) : ~NonPos(df[i].tp)

\* C8, amended: the wavelength has no failure for any period: it is 0 for a
\* zero period, and for a negative period, as for a positive one, the
\* positive value 9.81 * period^2 / (2 pi)
C8_WavelengthAnyPeriod ==
    Computed =>
        \A i \in 1..Len(df) :
            LET tp == df[i].tp
            IN  /\ IsZero(tp) => Lp(tp) = Zero
                /\ IsNeg(tp) \/ IsPos(tp) =>
                      /\ IsPos(Lp(tp))
                      /\ FMul(FMul(Lp(tp), Rat(200, 1)), Pi)
                           = FMul(Rat(981, 1), FMul(tp, tp))
                /\ IsNeg(tp) => Lp(tp) = Lp(FMul(Rat(-1, 1), tp))

\* a computed table with a zero period and a negative period
C8_Witness ==
    /\ Computed
    /\ \E i, j \in 1..Len(df) :
          /\ IsZero(df[i].tp)
          /\ IsNeg(df[j].tp)
          /\ IsFinite(df[j].iribarren)

\* the points of the first figure
Points == UNION {{fig1[k][j] : j \in 1..Len(fig1[k])} : k \in 1..Len(fig1)}

\* C9 as stated: the ratio fails for a record with hs = 0, so that no point is
\* drawn for such a record
C9_Original ==
    Selected => \A pt \in Points : ~IsZero(df[pt.row].hs)

\* C9, amended: the ratio r2 / hs raises nothing when hs = 0: it is +inf for
\* r2 > 0 and NaN for r2 = 0
C9_RatioZeroHs ==
    Selected =>
        \A pt \in Points :
            IsZero(df[pt.row].hs) =>
                /\ IsPos(df[pt.row].r2) => pt.y = Inf(1)
                /\ IsZero(df[pt.row].r2) => pt.y = NaN

\* a figure with a point at ratio +inf and a point at ratio NaN
C9_Witness ==
    /\ Selected
    /\ \E pt, qt \in Points :
          /\ IsZero(df[pt.row].hs) /\ pt.y = Inf(1)
          /\ IsZero(df[qt.row].hs) /\ qt.y = NaN

\* C10: the ratio drawn for a record with hs # 0 is r2 / hs of that same
\* record, drawn at that record's Iribarren number: each selected row has one
\* point, whose y times the row's hs is the row's r2
C10_RatioSameRow ==
    Selected =>
        \A k \in 1..3 :
            LET ids == (<<ids1, ids2, ids3>>)[k]
            IN  /\ Len(fig1[k]) = Len(ids)
                /\ \A j \in 1..Len(ids) :
                      LET r == df[ids[j]]
                          pt == fig1[k][j]
                      IN  /\ pt.x = r.iribarren
                          /\ (IsPos(r.hs) \/ IsNeg(r.hs)) /\ IsFinite(r.r2) =>
                                /\ IsFinite(pt.y)
                                /\ FMul(pt.y, r.hs) = r.r2

\* a figure with two points in one series whose rows differ in hs and in ratio
C10_Witness ==
    /\ Selected
    /\ \E k \in 1..3 :
          /\ Len(fig1[k]) = 2
          /\ IsPos(df[fig1[k][1].row].hs)
          /\ IsPos(df[fig1[k][2].row].hs)
          /\ df[fig1[k][1].row].hs # df[fig1[k][2].row].hs
          /\ fig1[k][1].y # fig1[k][2].y

\* C11: for every valid record, with the period held fixed, iribarrenNb of
\* twice the slope is twice the record's Iribarren number and iribarrenNb of
\* four times the wave height is half of it
C11_ScaleInvariance ==
    Computed =>
        \A i \in 1..Len(df) :
            Valid(df[i]) =>
                \A impl \in PowImpls :
                    /\ iribarrenNb(df[i].tp, df[i].hs,
                                   FMul(Rat(2, 1), df[i].beta), impl)
                         = FMul(Rat(2, 1), df[i].iribarren)
                    /\ iribarrenNb(df[i].tp, FMul(Rat(4, 1), df[i].hs),
                                   df[i].beta, impl)
                         = FDiv(df[i].iribarren, Rat(2, 1))

\* a computed table with a valid record of positive slope, whose Iribarren
\* number differs from its double and from its half
C11_Witness ==
    /\ Computed
    /\ \E i \in 1..Len(df) :
          /\ Valid(df[i])
          /\ IsPos(df[i].iribarren)
          /\ FMul(Rat(2, 1), df[i].iribarren) # df[i].iribarren
          /\ iribarrenNb(df[i].tp, FMul(Rat(4, 1), df[i].hs), df[i].beta, "sqrt")
               # df[i].iribarren

\* the table the first two cells give for the file that holds data line i
\* alone: the header and that line, read and given its Iribarren column
SoloTable(i, impl) ==
    LET t == read_csv(<<file[1], file[i + 1]>>, names, 1)
    IN  SetColumn(t, "iribarren",
                  [j \in 1..Len(t) |->
                      iribarrenNb(t[j].tp, t[j].hs, t[j].beta, impl)])

\* the beach-type selections that hold the single row of table t
SoloClasses(t) ==
    {c \in {"dissipative", "intermediate", "reflective"} :
        \/ c = "dissipative" /\ Where(Mask1(t), 1) = <<1>>
        \/ c = "intermediate" /\ Where(Mask2(t), 1) = <<1>>
        \/ c = "reflective" /\ Where(Mask3(t), 1) = <<1>>}

\* the points the first figure draws for the single row of table t
SoloPoints(t) ==
    UNION { {<<1, ser[j].x, ser[j].y>> : j \in 1..Len(ser)} :
                ser \in {RatioSeries(t, Where(Mask1(t), 1))} }
      \cup
    UNION { {<<2, ser[j].x, ser[j].y>> : j \in 1..Len(ser)} :
                ser \in {RatioSeries(t, Where(Mask2(t), 1))} }
      \cup
    UNION { {<<3, ser[j].x, ser[j].y>> : j \in 1..Len(ser)} :
                ser \in {RatioSeries(t, Where(Mask3(t), 1))} }

C14_Frame ==
    [][ /\ file' = file
        /\ pc # "read_csv" =>
              /\ Len(df') = Len(df)
              /\ \A i \in 1..Len(df) :
                    \A j \in 1..Len(names) : df'[i][names[j]] = df[i][names[j]]
        /\ pc = "iribarren" =>
              \A i \in 1..Len(df) :
                    /\ "iribarren" \notin DOMAIN df[i]
                    /\ "iribarren" \in DOMAIN df'[i]
        /\ Computed => df' = df /\ columns' = columns ]_vars

\* a finished analysis of two different records, both figures drawn, each
\* record with its iribarren field next to the input fields of its line
C14_Witness ==
    /\ pc = "done"
    /\ Len(df) = 2
    /\ df[1] # df[2]
    /\ df[1].hs # df[2].hs
    /\ \A i \in 1..2 : "iribarren" \in DOMAIN df[i] /\ CarriesLine(i)
    /\ Len(fig1) = 3
    /\ Len(fig2) = 3

\* the set of the names in a list of columns
ColumnSet(cols) == {cols[j] : j \in 1..Len(cols)}

\* C15 as stated: the finished table has the input columns followed by the
\* three columns iribarren, beach_type and normalized_runup
C15_Original ==
    pc = "done" =>
        /\ columns = names \o <<"iribarren", "beach_type", "normalized_runup">>
        /\ \A i \in 1..Len(df) : DOMAIN df[i] = ColumnSet(columns)

\* C15: the table the analysis leaves is the input table with exactly one
\* column appended, named iribarren: the ten input columns come first in
\* their order, every row has exactly these eleven fields and the input
\* fields of its line, and there is no beach_type or normalized_runup column
C15_OneColumnAppended ==
    Computed =>
        /\ columns = Append(names, "iribarren")
        /\ Len(df) = Len(file) - 1
        /\ \A i \in 1..Len(df) :
              /\ DOMAIN df[i] = ColumnSet(names) \cup {"iribarren"}
              /\ Cardinality(DOMAIN df[i]) = 11
              /\ CarriesLine(i)

\* a finished analysis with a record in the table, which has eleven fields
\* and neither a beach_type nor a normalized_runup field
C15_Witness ==
    /\ pc = "done"
    /\ Len(df) >= 1
    /\ "iribarren" \in DOMAIN df[1]
    /\ "beach_type" \notin DOMAIN df[1]
    /\ "normalized_runup" \notin DOMAIN df[1]
    /\ Len(columns) = 11

\* C16 as stated: the table read from the file has exactly nine columns
C16_Original ==
    pc = "iribarren" => Len(columns) = 9 /\ Len(df) = Len(file) - 1

\* C16: the table read from the file has exactly ten columns, the ten names
\* handed to read_csv in their order, and the first line of the file is
\* skipped: row i of the table is line i + 1 of the file, so the table has one
\* row less than the file has lines and no row holds the header's words
C16_TenColumnsHeaderSkipped ==
    pc # "read_csv" =>
        /\ Len(df) = Len(file) - 1
        /\ Len(names) = 10
        /\ Cardinality(ColumnSet(names)) = 10
        /\ SubSeq(columns, 1, 10) = names
        /\ \A i \in 1..Len(df) :
              /\ ColumnSet(names) \subseteq DOMAIN df[i]
              /\ CarriesLine(i)
              /\ df[i].dataset # file[1][1]
              /\ df[i].beach # file[1][2]

\* a table just read from a file of a header and two data lines: two rows of
\* ten fields each, the first row being the second line of the file
C16_Witness ==
    /\ pc = "iribarren"
    /\ Len(file) = 3
    /\ file[1] = names
    /\ Len(df) = 2
    /\ Cardinality(DOMAIN df[1]) = 10
    /\ df[1].hs = file[2][5]
    /\ df[1].r2 = file[2][10]

\* x is finite and lies between lo and hi, both included
Within(x, lo, hi) == x.k = "fin" /\ Cmp(x, lo) >= 0 /\ Cmp(x, hi) <= 0

\* row i is the reference record hs = 2.0, tp = 8.0, r2 = 1.2 with slope beta
IsReference(i, beta) ==
    /\ df[i].hs = Rat(2, 1)
    /\ df[i].tp = Rat(8, 1)
    /\ df[i].r2 = Rat(6, 5)
    /\ df[i].beta = beta

\* C19 as stated, "about v" read as within one unit of the last digit given:
\* the reference record of slope 0.05 has a wavelength within 0.01 of 99.88
\* and an Iribarren number within 0.0001 of 0.3536
C19_Original ==
    Selected =>
        \A i \in 1..Len(df) :
            IsReference(i, Rat(1, 20)) =>
                /\ Within(Lp(df[i].tp), Rat(9987, 100), Rat(9989, 100))
                /\ Within(df[i].iribarren, Rat(3535, 10000), Rat(3537, 10000))

\* C19: the reference record hs = 2.0, tp = 8.0, beta = 0.05, r2 = 1.2 has a
\* wavelength between 99.92 and 99.93 and an Iribarren number between 0.3534
\* and 0.3535, is selected as dissipative only and is drawn at the ratio 0.6;
\* with beta = 0.2 its Iribarren number is within 0.001 of 1.414 and it is
\* selected as intermediate only
C19_ReferenceRows ==
    Selected =>
        \A i \in 1..Len(df) :
            /\ IsReference(i, Rat(1, 20)) =>
                  /\ Within(Lp(df[i].tp), Rat(9992, 100), Rat(9993, 100))
                  /\ Within(df[i].iribarren, Rat(3534, 10000), Rat(3535, 10000))
                  /\ ClassesOf(i) = {"dissipative"}
                  /\ Cardinality(SlotsOf(i)) = 1
                  /\ \A sl \in SlotsOf(i) : fig1[sl[1]][sl[2]].y = Rat(3, 5)
            /\ IsReference(i, Rat(1, 5)) =>
                  /\ Within(df[i].iribarren, Rat(1413, 1000), Rat(1415, 1000))
                  /\ ClassesOf(i) = {"intermediate"}

\* a selected table that holds both reference records
C19_Witness ==
    /\ Selected
    /\ \E i, j \in 1..Len(df) :
          /\ IsReference(i, Rat(1, 20))
          /\ IsReference(j, Rat(1, 5))
          /\ InSeq(i, ids1)
          /\ InSeq(j, ids2)

\* C20: the Iribarren number iribarrenNb stores for a valid record is
\* slope / sqrt(waveHeight / lambda0) with the wavelength of the notebook's
\* documentation, lambda0 = g * T^2 / pi
C20_DocWavelength ==
    Computed =>
        \A i \in 1..Len(df) :
            Valid(df[i]) =>
                IsIribarren(df[i].iribarren, df[i].hs, df[i].beta,
                            FDiv(FMul(G, FSquare(df[i].tp)), Pi))

\* C17 as stated: for a file that lacks a column the batch fails as a whole,
\* so that the analysis never finishes and no record gets a derived value
C17_Original ==
    /\ pc # "done"
    /\ \A i \in 1..Len(df) : "iribarren" \notin DOMAIN df[i]

\* C17: for a file that lacks a column nothing fails: read_csv gives the ten
\* names to the fields by position, so every row has the nine fields of its
\* line under the first nine names and NaN as r2; iribarrenNb is applied to
\* what stands under tp, hs and beta; and every point drawn has the ratio NaN
C17_MissingColumnShifts ==
    pc # "read_csv" =>
        /\ pc \in {"iribarren", "plot1", "plot2", "done"}
        /\ Len(df) = Len(file) - 1
        /\ \A i \in 1..Len(df) :
              /\ Len(file[i + 1]) = Len(names) - 1
              /\ \A j \in 1..Len(file[i + 1]) : df[i][names[j]] = file[i + 1][j]
              /\ df[i].r2 = NaN
              /\ Computed =>
                    \E impl \in PowImpls :
                        df[i].iribarren
                          = iribarrenNb(df[i].tp, df[i].hs, df[i].beta, impl)
        /\ Selected =>
              \A k \in 1..3 : \A j \in 1..Len(fig1[k]) : fig1[k][j].y = NaN

\* a finished analysis of a file of two data lines of nine fields, written
\* without its period column: the slopes are read as periods, both rows have
\* an Iribarren number and one of them is drawn
C17_Witness ==
    /\ pc = "done"
    /\ Len(file) = 3
    /\ Len(file[2]) = 9
    /\ Len(df) = 2
    /\ df[1].hs = Rat(2, 1)
    /\ df[1].tp = Zero
    /\ df[1].beta = Rat(3, 10000)
    /\ df[1].r2 = NaN
    /\ "iribarren" \in DOMAIN df[1]
    /\ "iribarren" \in DOMAIN df[2]
    /\ \E k \in 1..3 : Len(fig1[k]) >= 1

\* C18 as stated: a record that violates a numeric precondition or holds a
\* cell that is not a number gets no value and is in no beach-type selection
C18_Original ==
    Selected =>
        \A i \in 1..Len(df) :
            ~Valid(df[i]) =>
                "iribarren" \notin DOMAIN df[i] /\ ClassesOf(i) = {}

\* C18: a record that violates a numeric precondition is not reported and
\* not set aside: it gets the value the arithmetic gives, is in exactly one
\* beach-type selection unless that value is NaN, and a zero wave height with
\* a positive slope and a non-zero period gives +inf, selected as reflective
\* and drawn. A cell that is not a number under tp, hs or beta stops the
\* analysis at the call of iribarrenNb with a TypeError for the whole table:
\* no record, valid or not, gets a value and nothing is selected or drawn
C18_SilentOrFatal ==
    /\ Selected =>
          \A i \in 1..Len(df) :
              /\ "iribarren" \in DOMAIN df[i]
              /\ df[i].iribarren.k # "nan" => Cardinality(ClassesOf(i)) = 1
              /\ df[i].iribarren.k = "nan" => ClassesOf(i) = {}
              /\ (IsZero(df[i].hs) /\ IsPos(df[i].beta)
                    /\ IsFinite(df[i].tp) /\ ~IsZero(df[i].tp)) =>
                    /\ df[i].iribarren = Inf(1)
                    /\ ClassesOf(i) = {"reflective"}
                    /\ Cardinality(SlotsOf(i)) = 1
    /\ (pc # "read_csv" /\ ~Numeric(df)) =>
          /\ pc \in {"iribarren", "TypeError"}
          /\ \A i \in 1..Len(df) : "iribarren" \notin DOMAIN df[i]
          /\ columns = names
          /\ <<ids1, ids2, ids3, fig1, fig2>> = <<<<>>, <<>>, <<>>, <<>>, <<>>>>
    /\ pc = "TypeError" => ~Numeric(df)

\* a finished analysis, from a file that could have held cells that are not
\* numbers, with a record of zero wave height given +inf, selected as
\* reflective and drawn, next to a valid record
C18_Witness ==
    /\ pc = "done"
    /\ Len(df) = 2
    /\ Numeric(df)
    /\ Valid(df[1])
    /\ IsZero(df[2].hs)
    /\ df[2].iribarren = Inf(1)
    /\ InSeq(2, ids3)
    /\ Cardinality(SlotsOf(2)) = 1

\* row i is in the selection ids
Holds(ids, i) == InSeq(i, ids)

\* C24 as stated: every row of the table is in exactly one of the three
\* beach-type selections
C24_Original ==
    Selected => \A i \in 1..Len(df) : Cardinality(ClassesOf(i)) = 1

\* C24: the three selections are pairwise disjoint and list no row twice; a
\* row is in one of them exactly when its Iribarren number is not NaN, a row
\* with +inf being reflective; the second figure draws, series by series, the
\* rows of the same three selections
C24_DisjointCoverNonNaN ==
    /\ Selected =>
          /\ \A i \in 1..Len(df) :
                /\ ~(Holds(ids1, i) /\ Holds(ids2, i))
                /\ ~(Holds(ids1, i) /\ Holds(ids3, i))
                /\ ~(Holds(ids2, i) /\ Holds(ids3, i))
                /\ (Holds(ids1, i) \/ Holds(ids2, i) \/ Holds(ids3, i))
                      <=> df[i].iribarren.k # "nan"
                /\ df[i].iribarren = Inf(1) => Holds(ids3, i)
          /\ \A k \in 1..3 :
                \A j1, j2 \in 1..Len((<<ids1, ids2, ids3>>)[k]) :
                    (<<ids1, ids2, ids3>>)[k][j1] = (<<ids1, ids2, ids3>>)[k][j2]
                        => j1 = j2
          /\ Len(ids1) + Len(ids2) + Len(ids3)
                = Cardinality({i \in 1..Len(df) : df[i].iribarren.k # "nan"})
    /\ pc = "done" =>
          \A k \in 1..3 :
              /\ Len(fig2[k]) = Len((<<ids1, ids2, ids3>>)[k])
              /\ \A j \in 1..Len(fig2[k]) :
                    fig2[k][j].row = (<<ids1, ids2, ids3>>)[k][j]

\* a finished analysis of a record whose Iribarren number is NaN, which is in
\* no selection and in no figure, next to a record that is selected
C24_Witness ==
    /\ pc = "done"
    /\ Len(df) = 2
    /\ df[1].iribarren = NaN
    /\ ClassesOf(1) = {}
    /\ Cardinality(ClassesOf(2)) = 1
    /\ Len(fig2[1]) + Len(fig2[2]) + Len(fig2[3]) = 1

\* C27 as stated, for every record whatever its wave height and period: the
\* value at twice the period is twice the record's Iribarren number, and with
\* a slope >= 0 the Iribarren number is not negative and is zero exactly when
\* the slope is zero
C27_Original ==
    Computed =>
        \A i \in 1..Len(df) :
            /\ \A impl \in PowImpls :
                  iribarrenNb(FMul(Rat(2, 1), df[i].tp), df[i].hs,
                              df[i].beta, impl)
                    \in {FMul(Rat(2, 1), iribarrenNb(df[i].tp, df[i].hs,
                                                      df[i].beta, im)) :
                            im \in PowImpls}
            /\ (IsPos(df[i].beta) \/ IsZero(df[i].beta)) =>
                  /\ ~IsNeg(df[i].iribarren)
                  /\ IsZero(df[i].iribarren) <=> IsZero(df[i].beta)

\* C27: for a record with wave height > 0, period > 0 and slope >= 0,
\* iribarrenNb at twice the period is twice the record's Iribarren number,
\* which is finite, not negative, and zero exactly when the slope is zero;
\* with a zero period and a positive wave height the value is zero for every
\* finite slope, and with a zero slope and a zero wave height it is NaN
C27_PeriodProportional ==
    Computed =>
        \A i \in 1..Len(df) :
            /\ Valid(df[i]) =>
                  /\ \A impl \in PowImpls :
                        iribarrenNb(FMul(Rat(2, 1), df[i].tp), df[i].hs,
                                    df[i].beta, impl)
                          = FMul(Rat(2, 1), df[i].iribarren)
                  /\ IsFinite(df[i].iribarren)
                  /\ ~IsNeg(df[i].iribarren)
                  /\ IsZero(df[i].iribarren) <=> IsZero(df[i].beta)
            /\ (IsZero(df[i].tp) /\ IsPos(df[i].hs) /\ IsFinite(df[i].beta))
                  => IsZero(df[i].iribarren)
            /\ (IsZero(df[i].beta) /\ IsZero(df[i].hs) /\ IsPos(df[i].tp))
                  => df[i].iribarren = NaN

\* a computed table with a valid record of positive slope, whose value at
\* twice the period differs from its Iribarren number, and a record of zero
\* period and positive slope whose Iribarren number is zero
C27_Witness ==
    /\ Computed
    /\ \E i, j \in 1..Len(df) :
          /\ Valid(df[i])
          /\ IsPos(df[i].beta)
          /\ IsPos(df[i].iribarren)
          /\ iribarrenNb(FMul(Rat(2, 1), df[i].tp), df[i].hs, df[i].beta, "sqrt")
               # df[i].iribarren
          /\ IsZero(df[j].tp)
          /\ IsPos(df[j].beta)
          /\ IsZero(df[j].iribarren)

\* ------------------------------------------------------------ properties of WaveAnalysis.ipynb

\* the cells of WaveAnalysis.ipynb in their order
Cells ==
    <<"create", "process", "read", "visualise", "generate", "display", "list",
      "plotTimeSeries", "seasonAll", "displayAll", "tiles", "plotSeasons",
      "time", "soi", "aoi", "sam", "wh", "T", "corr_wh", "corr_T", "done">>

Position(c) == CHOOSE i \in DOMAIN Cells : Cells[i] = c

\* the cell a stopped run stopped in
Failing ==
    IF pearson = <<>> THEN "soi"
    ELSE IF Len(pearson) <= 3 THEN "corr_wh" ELSE "corr_T"

\* the cell c has been run, to its end or to the error it raised
Ran(c) ==
    /\ waPc # "off"
    /\ IF waPc = "ValueError" THEN Position(c) <= Position(Failing)
       ELSE Position(c) < Position(waPc)

\* the tables as loaded, before the year filter
LoadedSoi == DecodeDate(RangeIndex(read_csv(env.soi, <<"Date", "Value">>, 0)))

LoadedAoi == ReadAoi(env.aoi)

LoadedSam == RangeIndex(Stack(env.sam))

LoadedWave(col) == GroupMean(wa.timeseries, col)

\* the rows of a table with lo <= year <= hi, in the order of the table
Inside(rows, lo, hi) ==
    SelectSeq(rows, LAMBDA r : lo <= r.year /\ r.year <= hi)

\* table holds the rows of loaded with 1998 <= year <= 2023 and no other, with
\* their labels, in the order of loaded
KeepsFrame(table, loaded, col) ==
    \E kept \in {Inside(loaded, 1998, 2023)} :
        /\ Column(table, "year") = Column(kept, "year")
        /\ Column(table, "month") = Column(kept, "month")
        /\ Column(table, col) = Column(kept, col)

Has(r, col) == col \in DOMAIN r

\* the Date of a row splits into its year and its month, and they give it back
Decoded(r) ==
    /\ r.year * 100 <= r.Date /\ r.Date < (r.year + 1) * 100
    /\ r.month = r.Date - 100 * r.year
    /\ r.year * 100 + r.month = r.Date
    /\ 0 <= r.month /\ r.month <= 99
    /\ r.month \in 1..12 <=> (r.Date % 100) \in 1..12

\* C26: every Date of the SOI table decodes to year = Date // 100 and
\* month = Date % 100 with year * 100 + month = Date and 0 <= month <= 99; the
\* month is a calendar month exactly when the last two digits of Date are in
\* 1..12, and a row carries the timestamp (year, month, 1) only in that case.
C26_DateDecode ==
    Ran("soi") =>
        /\ \A i \in 1..Len(LoadedSoi) : Decoded(LoadedSoi[i])
        /\ \A i \in 1..Len(soi_df) :
              /\ Decoded(soi_df[i])
              /\ Has(soi_df[i], "time") =>
                    /\ soi_df[i].month \in 1..12
                    /\ soi_df[i].time = <<soi_df[i].year, soi_df[i].month, 1>>
        /\ (\A i \in 1..Len(soi_df) : Has(soi_df[i], "time"))
              <=> (\A i \in 1..Len(soi_df) : soi_df[i].month \in 1..12)
        /\ (\E i \in 1..Len(soi_df) : soi_df[i].month \notin 1..12)
              => waPc = "ValueError"

\* the SOI cell has given the rows of January 1998 and December 2023 their
\* timestamps
C26_Witness ==
    /\ waPc = "aoi"
    /\ \E i \in 1..Len(soi_df) :
          /\ soi_df[i].Date = 199801
          /\ soi_df[i].year = 1998 /\ soi_df[i].month = 1
          /\ soi_df[i].time = <<1998, 1, 1>>
    /\ \E i \in 1..Len(soi_df) :
          /\ soi_df[i].Date = 202312
          /\ soi_df[i].time = <<2023, 12, 1>>

\* every anomaly of the table is the value of its row minus the mean of the
\* values of kept: n * (value - anomaly) is the sum of the n values of kept
FromMeanOf(table, kept, col) ==
    \A i \in 1..Len(table) :
        FMul(FSub(table[i][col], table[i].anomaly), Float(Len(kept)))
            = Sum(kept, col)

\* the anomalies of the table are those about the mean of the rows of loaded
\* inside the time frame, and they sum to zero
Centred(table, loaded, col) ==
    /\ FromMeanOf(table, Inside(loaded, 1998, 2023), col)
    /\ Sum(table, "anomaly") = Zero

\* C23: in each of the five tables the anomaly of a row is its monthly value
\* minus the mean of the values kept by the year filter, not of the whole
\* loaded series, so the anomalies of each table sum to zero.
C23_AnomalyAboutKeptMean ==
    /\ Ran("soi") => Centred(soi_df, LoadedSoi, "Value")
    /\ Ran("aoi") => Centred(aoi_df, LoadedAoi, "Value")
    /\ Ran("sam") => Centred(sam_df, LoadedSam, "Value")
    /\ Ran("wh") => Centred(wh_df, LoadedWave("wh"), "wh")
    /\ Ran("T") => Centred(T_df, LoadedWave("period"), "period")

\* all five tables hold anomalies that are not zero, about a mean that is
\* not the mean of the loaded series
C23_Witness ==
    /\ Ran("T")
    /\ \A t \in {<<soi_df, LoadedSoi, "Value">>, <<aoi_df, LoadedAoi, "Value">>,
                 <<sam_df, LoadedSam, "Value">>, <<wh_df, LoadedWave("wh"), "wh">>,
                 <<T_df, LoadedWave("period"), "period">>} :
          /\ Len(t[1]) >= 2
          /\ \A i \in 1..Len(t[1]) : t[1][i].anomaly # Zero
          /\ ~FromMeanOf(t[1], t[2], t[3])

\* the index table and the wave table of the k-th call of pearsonr: SOI, AOI
\* and SAM against the wave height, then against the wave period
IndexOf(k) == <<soi_df, aoi_df, sam_df>>[((k - 1) % 3) + 1]

WaveOf(k) == IF k <= 3 THEN wh_df ELSE T_df

Min(a, b) == IF a < b THEN a ELSE b

\* C21 as stated: whatever the two lengths, both arguments of every call of
\* pearsonr have the length of the shorter table and no call raises.
C21_Original ==
    \A k \in 1..Len(pearson) :
        /\ Len(pearson[k].x) = Min(Len(IndexOf(k)), Len(WaveOf(k)))
        /\ Len(pearson[k].y) = Min(Len(IndexOf(k)), Len(WaveOf(k)))
        /\ ~pearson[k].raised

\* C21: only the wave series is cut.  The first argument of every call of
\* pearsonr is the whole index anomaly series, the second the first
\* min(len(index), len(wave)) wave anomalies; the call raises ValueError, and
\* the run stops there, exactly when the wave table is the shorter one or the
\* index table has fewer than two rows.
C21_WaveSideCut ==
    \A k \in 1..Len(pearson) :
        /\ pearson[k].x = Column(IndexOf(k), "anomaly")
        /\ Len(pearson[k].y) = Min(Len(IndexOf(k)), Len(WaveOf(k)))
        /\ \A i \in 1..Len(pearson[k].y) :
              pearson[k].y[i] = Column(WaveOf(k), "anomaly")[i]
        /\ pearson[k].raised
              <=> \/ Len(WaveOf(k)) < Len(IndexOf(k))
                  \/ Len(IndexOf(k)) < 2
        /\ pearson[k].raised => k = Len(pearson) /\ waPc = "ValueError"

\* the correlation with SOI was computed on two pairs, and the one with AOI
\* raised because the wave table has two rows and the AOI table three
C21_Witness ==
    /\ waPc = "ValueError"
    /\ Len(pearson) = 2
    /\ ~pearson[1].raised /\ Len(pearson[1].x) = 2
    /\ pearson[2].raised
    /\ Len(pearson[2].x) = 3 /\ Len(pearson[2].y) = 2
    /\ Len(aoi_df) = 3 /\ Len(wh_df) = 2

\* the position of the month m in a table that holds it
Where_Month(table, m) == CHOOSE i \in 1..Len(table) : MonthOf(table[i]) = m

\* from the pair at the position of m on, every pair of the call combines two
\* different months
ShiftedFrom(k, m) ==
    \E held \in {IF m \in MonthsOf(IndexOf(k)) THEN IndexOf(k) ELSE WaveOf(k)} :
        \A i \in Where_Month(held, m) .. Len(pearson[k].y) :
            MonthOf(IndexOf(k)[i]) # MonthOf(WaveOf(k)[i])

\* the months one table of the k-th call holds and the other does not
OneSided(k) ==
    (MonthsOf(IndexOf(k)) \ MonthsOf(WaveOf(k)))
        \cup (MonthsOf(WaveOf(k)) \ MonthsOf(IndexOf(k)))

\* C22 as stated: the pairs are formed by position, and once a month is in
\* one table and not in the other, all later pairs combine different months.
C22_Original ==
    \A k \in 1..Len(pearson) :
        ~pearson[k].raised =>
            /\ \A i \in 1..Len(pearson[k].x) :
                  /\ pearson[k].x[i].label = IndexOf(k)[i].label
                  /\ pearson[k].y[i].label = WaveOf(k)[i].label
            /\ \A m \in OneSided(k) : ShiftedFrom(k, m)

\* C22: the i-th pair of a correlation is the i-th kept row of the index
\* table with the i-th kept row of the wave table, whatever their dates.
\* When every month of the index table is in the wave table, all pairs from
\* the position of a month the index table lacks combine different months.
C22_PositionalPairs ==
    \A k \in 1..Len(pearson) :
        ~pearson[k].raised =>
            /\ \A i \in 1..Len(pearson[k].x) :
                  /\ pearson[k].x[i] = Column(IndexOf(k), "anomaly")[i]
                  /\ pearson[k].y[i] = Column(WaveOf(k), "anomaly")[i]
            /\ MonthsOf(IndexOf(k)) \subseteq MonthsOf(WaveOf(k))
                  => \A m \in OneSided(k) : ShiftedFrom(k, m)

\* the SOI table lacks January 1998 and holds two later months, the wave
\* table holds all three: both pairs of the first correlation combine
\* different months
C22_Witness ==
    /\ Len(pearson) >= 1
    /\ ~pearson[1].raised
    /\ Len(pearson[1].x) = 2
    /\ MonthsOf(soi_df) = {199802, 202312}
    /\ MonthsOf(wh_df) = {199801, 199802, 202312}
    /\ pearson[1].x[1].label # pearson[1].y[1].label
    /\ \A i \in 1..2 : MonthOf(soi_df[i]) # MonthOf(wh_df[i])

\* the float a is at most the float b
FLe(a, b) == FGe(b, a)

\* the box is one degree wide and one degree high
IsUnitBox(box) ==
    /\ FSub(box[2], box[1]) = Float(1)
    /\ FSub(box[4], box[3]) = Float(1)

\* the box a lies inside the box b, edges included
BoxInside(a, b) ==
    /\ FLe(b[1], a[1]) /\ FLe(a[2], b[2])
    /\ FLe(b[3], a[3]) /\ FLe(a[4], b[4])

\* the boxes a and b share more than points of their edges
Overlap(a, b) ==
    /\ FLt(a[1], b[2]) /\ FLt(b[1], a[2])
    /\ FLt(a[3], b[4]) /\ FLt(b[3], a[4])

\* the centre [lon, lat] of a box
Centre(box) ==
    <<FDiv(FAdd(box[1], box[2]), Two), FDiv(FAdd(box[3], box[4]), Two)>>

\* C30: the four tiles are one-degree boxes inside the bounding box
\* [152, 155, -36, -34] of wa that overlap on edges only, and lonlat[k] is
\* the centre of tiles[k]; after the loop seasons has exactly four entries,
\* seasons[k] computed for tiles[k]; the k-th curve drawn and the k-th legend
\* label belong to the same tile.
C30_TilesSeasonsLegend ==
    /\ Ran("tiles") =>
          /\ Len(tiles) = 4 /\ Len(lonlat) = 4 /\ Len(seasons) = 4
          /\ wa.bbox = <<Float(152), Float(155), Float(-36), Float(-34)>>
          /\ \A k \in 1..4 :
                /\ IsUnitBox(tiles[k])
                /\ BoxInside(tiles[k], wa.bbox)
                /\ lonlat[k] = Centre(tiles[k])
                /\ seasons[k].lonlat = tiles[k]
                /\ seasons[k].series = "wh"
                /\ \A j \in 1..4 : j # k => ~Overlap(tiles[k], tiles[j])
    /\ Ran("plotSeasons") =>
          /\ Len(curves) = 4 /\ Len(legend) = 4
          /\ \A k \in 1..4 :
                /\ curves[k].table = seasons[k]
                /\ legend[k] = Centre(curves[k].table.lonlat)

\* the figure of the annual means has been drawn: the second curve is that of
\* the tile [153, 154, -36, -35] and its label is [153.5, -35.5]
C30_Witness ==
    /\ waPc = "time"
    /\ curves[2].table.lonlat = <<Float(153), Float(154), Float(-36), Float(-35)>>
    /\ legend[2] = <<Rat(307, 2), Rat(-71, 2)>>
    /\ Len(seasons) = 4

\* ------------------------------------------------------------ properties of the call order

\* the positions of the calls of the methods fns on obj in a call log
Calls(log, obj, fns) ==
    {i \in 1..Len(log) : log[i].obj = obj /\ log[i].fn \in fns}

\* every call of a method of later on obj comes after a call of a method of
\* earlier on obj
Precedes(log, obj, earlier, later) ==
    \A j \in Calls(log, obj, later) :
        \E i \in Calls(log, obj, earlier) : i < j

\* C28: the wave-sediment notebook creates the model, calls findland with the
\* sea level, wavesource with the direction, cmptwaves with the source that
\* this wavesource call returned, and then cmptsed: cmptsed never comes before
\* cmptwaves, and cmptwaves never before findland and wavesource.
C28_WavesedOrder ==
    /\ Precedes(wsLog, "wavesed", {"wave"}, {"findland"})
    /\ Precedes(wsLog, "wavesed", {"findland"}, {"wavesource"})
    /\ Precedes(wsLog, "wavesed", {"findland"}, {"cmptwaves"})
    /\ Precedes(wsLog, "wavesed", {"wavesource"}, {"cmptwaves"})
    /\ Precedes(wsLog, "wavesed", {"cmptwaves"}, {"cmptsed"})
    /\ \A fn \in {"wave", "findland", "wavesource", "cmptwaves", "cmptsed"} :
          Cardinality(Calls(wsLog, "wavesed", {fn})) <= 1
    /\ \A i \in Calls(wsLog, "wavesed", {"findland"}) : wsLog[i].arg = <<Zero>>
    /\ \A i \in Calls(wsLog, "wavesed", {"wavesource"}) :
          /\ wsLog[i].arg = <<0>>
          /\ wdir = wavesource([sealevel |-> <<Zero>>], 0)
    /\ \A i \in Calls(wsLog, "wavesed", {"cmptwaves"}) :
          /\ wsLog[i].arg = wdir
          /\ wavesed.waves = <<[src |-> wdir, h0 |-> 2]>>
    /\ \A i \in Calls(wsLog, "wavesed", {"cmptsed"}) :
          wavesed.sed = <<[src |-> wdir, h0 |-> 2]>>

\* the notebook has run to its end: the transport was computed under the
\* waves of direction 0 and height 2 over the land found for sea level 0
C28_Witness ==
    /\ wsPc = "done"
    /\ wdir = <<[dir |-> 0, sealevel |-> <<Zero>>]>>
    /\ wavesed.sed = <<[src |-> wdir, h0 |-> 2]>>
    /\ Calls(wsLog, "wavesed", {"cmptsed"}) = {10}
    /\ Calls(wsLog, "wavesed", {"cmptwaves"}) = {4}

\* the object obj of the log has its data loaded before generateTimeSeries,
\* and generateTimeSeries is called before its time series is read
LoadsThenGenerates(log, obj) ==
    /\ Precedes(log, obj, {"processAltimeterData", "readAltimeterData"},
                {"generateTimeSeries"})
    /\ Precedes(log, obj, {"generateTimeSeries"},
                {"timeseries", "computeSeasonalCharacteristics", "close2Track"})

\* the rows of a table, without their order
RowsOf(table) == {table[i] : i \in 1..Len(table)}

\* what obj holds comes from the records found for url and from nothing else
OwnData(obj, url, records) ==
    /\ obj.altimeterURL = url
    /\ obj.data = records
    /\ obj.timeseries \in {<<>>, RangeIndex(records)}
    /\ RowsOf(obj.cyclone_data) \subseteq RowsOf(obj.timeseries)

\* C29: in the altimeter notebooks every waveAnalysis object (wa, wa_east,
\* wa_west) has its data loaded by processAltimeterData or readAltimeterData
\* before generateTimeSeries, which comes before any read of its timeseries,
\* computeSeasonalCharacteristics and close2Track; wa_east and wa_west hold
\* the data of their own region only, and close2Track on one takes its rows
\* from the time series of that one, never from the other.
C29_LoadGenerateUse ==
    /\ LoadsThenGenerates(waLog, "wa")
    /\ LoadsThenGenerates(cyLog, "wa_east")
    /\ LoadsThenGenerates(cyLog, "wa_west")
    /\ Calls(waLog, "wa", {"processAltimeterData"}) # {}
          => wa.data = env.alti /\ wa.timeseries \in {<<>>, RangeIndex(env.alti)}
    /\ Calls(cyLog, "wa_east", {"waveAnalysis"}) # {}
          => OwnData(wa_east, "IMOS_YASI_east.txt", YasiData.east)
    /\ Calls(cyLog, "wa_west", {"waveAnalysis"}) # {}
          => OwnData(wa_west, "IMOS_YASI_west.txt", YasiData.west)
    /\ Calls(cyLog, "wa_west", {"close2Track"}) # {}
          => RowsOf(wa_east.cyclone_data) \cap RowsOf(wa_west.timeseries) = {}

\* close2Track has found both rows of the eastern time series and one row of
\* the western one, and WaveAnalysis.ipynb has read wa.timeseries for its
\* monthly wave tables
C29_Witness ==
    /\ cyPc = "plotPoint"
    /\ wa_east.cyclone_data = RangeIndex(YasiData.east)
    /\ Len(wa_west.cyclone_data) = 1
    /\ wa_west.cyclone_data[1].wh = Rat(7, 2)
    /\ waPc = "corr_wh"
    /\ Len(wh_df) = 3

====
